---------------------------- MODULE Spec2Model ----------------------------
(***************************************************************************)
(* A model of the konveyor-iq evaluation engine: the evaluator set, the    *)
(* metrics aggregator (_run_evaluators), the pass/fail gate, the           *)
(* per-pair evaluation (_evaluate_single), the run loop (evaluate) and the *)
(* per-model aggregation and ranking of the HTML reporter.                 *)
(*                                                                         *)
(* Conventions.                                                            *)
(*  - A Python dict is a sequence of entries [k |-> key, v |-> value] with *)
(*    distinct keys, in insertion order (dicts keep insertion order).      *)
(*  - Python's True / False / None are the strings "True", "False" and     *)
(*    "None" wherever a value can be a tri-state (Optional[bool]).         *)
(*  - A text is a record [len |-> n]: the string of n characters; only its *)
(*    length is observed by the code modelled here (len(), slicing).       *)
(***************************************************************************)
EXTENDS Integers, Sequences, FiniteSets, TLC

VARIABLES
    gm,        \* gate: the metrics map handed to _determine_pass
    gm2,       \* gate: a second map, edited away from gm on unrelated keys
    gedits,    \* gate: number of edits applied to gm2
    gres,      \* gate: decision taken for gm  (<<>> until taken)
    gres2,     \* gate: decision taken for gm2 (<<>> until taken)
    elang,     \* pair: test_case.language.value
    ejavac,    \* pair: whether a javac binary can be started on this machine
    eenabled,  \* pair: names of the evaluators in self.evaluators
    epc,       \* pair: position of _evaluate_single
    eidx,      \* pair: index of the next evaluator of _run_evaluators
    emetrics,  \* pair: the metrics accumulator
    eout,      \* pair: what each evaluator did (pending, skipped, raised, returned)
    eprov,     \* pair: what the provider's generate() did
    egen,      \* pair: generation_result (<<>> before generate_with_timing)
    eexpl,     \* pair: whether the extracted explanation is non-empty
    ejrun,     \* pair: how the first compiler invocation of _compile_java ended
    ebench,    \* pair: how the benchmark of the efficiency evaluator ended
    eresult,   \* pair: the result returned by _evaluate_single (<<>> before)
    rworkers,  \* run: self.max_workers
    rdown,     \* run: the model whose provider is down ("none": no model)
    rlimit,    \* run: self.limit (<<>> is None)
    rsuite,    \* run: the number of test cases of each rule of the suite
    rpc,       \* run: position of evaluate()
    rpos,      \* run: <<rule index, test case index>> of the current test case
    rcompleted,\* run: completed_test_cases
    rnext,     \* run: sequential mode, index of the next model
    rrunning,  \* run: models whose evaluation is in flight in the pool
    rqueue,    \* run: models submitted and waiting for a free worker
    rtest,     \* run: test_results of the current batch
    rall,      \* run: all_results
    rshown,    \* run: the per-model lines printed so far, batch by batch
    fglobal,   \* fetch: the module global _fetcher (0 is None, else an instance)
    fcreated,  \* fetch: number of KonveyorRuleFetcher instances created
    fcache,    \* fetch: per instance, whether the rule's key is in its _cache
    fpc,       \* fetch: position of each worker thread
    finst,     \* fetch: the instance get_rule_fetcher returned to each worker
    fgot,      \* fetch: what fetch_rule gave each worker
    fwhy,      \* fetch: what the ruleset's server and file gave each worker
    alist,     \* report: the result list handed to the reporters
    ahtml,     \* report: per run of HTMLReporter, its aggregate and ranking
    agraf,     \* report: per run of HTMLReporterGrafana, the same
    cjavac,    \* compile: whether a javac binary can be started
    ccode,     \* compile: the lines of the source file handed to javac
    cpc,       \* compile: position of _compile_java
    cruns,     \* compile: the compiler runs made so far
    cerr,      \* compile: error_output (<<>> before a run failed)
    ccleaned,  \* compile: what _strip_failing_imports returned (<<>> before)
    cresult,   \* compile: the pair returned by _compile_java (<<>> before)
    bwill,     \* bench: whether the child exits on its own
    bdenied,   \* bench: whether memory_info() of the child is refused
    bconfig,   \* bench: timeout_seconds of the configuration (<<>>: absent)
    bchild,    \* bench: the child process (running, exited, killed)
    bpc,       \* bench: position of _run_python_benchmark
    bmax,      \* bench: max_memory
    bend,      \* bench: how the call ended (none, returned, raised)
    iconfig,   \* init: per evaluator, its section of evaluation_dimensions
    ipc,       \* init: position of the engine (init, built, raised, ran)
    iidx,      \* init: index of the next evaluator of _initialize_evaluators
    ievaluators, \* init: per evaluator, self.enabled of the constructed object
    iinvoked,  \* init: the evaluators whose evaluate() was called
    wbackend,  \* writer: the type of the storage backend (file, sqlite)
    wstore,    \* writer: per run id, status and completed_at of the stored run
    wcurrent,  \* writer: self.current_run_id (0 is None)
    wnext,     \* writer: the run id the next uuid4() gives
    wclock,    \* writer: number of start_run and complete_run calls made
    wopen,     \* writer: whether the storage has not been closed
    wpc,       \* writer: where the caller is (new, inside, left, closed)
    wexit      \* writer: what __exit__ was handed (none, clean, exception)

gateVars == <<gm, gm2, gedits, gres, gres2>>

evalVars == <<elang, ejavac, eenabled, epc, eidx, emetrics, eout, eprov, egen,
              eexpl, ejrun, ebench, eresult>>

runVars == <<rworkers, rdown, rlimit, rsuite, rpc, rpos, rcompleted, rnext, rrunning,
             rqueue, rtest, rall, rshown>>

fetchVars == <<fglobal, fcreated, fcache, fpc, finst, fgot, fwhy>>

aggVars == <<alist, ahtml, agraf>>

compileVars == <<cjavac, ccode, cpc, cruns, cerr, ccleaned, cresult>>

(* the units checked on their own, outside a run of the engine *)
benchVars == <<bwill, bdenied, bconfig, bchild, bpc, bmax, bend>>

initVars == <<iconfig, ipc, iidx, ievaluators, iinvoked>>

writerVars == <<wbackend, wstore, wcurrent, wnext, wclock, wopen, wpc, wexit>>

unitVars == <<compileVars, benchVars, initVars, writerVars>>

(* the parts of a run of the engine *)
engineVars == <<gateVars, evalVars, runVars, fetchVars, aggVars>>

vars == <<gateVars, evalVars, runVars, fetchVars, aggVars, unitVars>>

(***************************************************************************)
(* Bounds of the model.                                                    *)
(***************************************************************************)
MaxCount == 2
MaxEdits == 2
MaxFindings == 1
ShortLen == 20

(* Program constant: the summary truncation length of a compiler error.   *)
SummaryLimit == 200

(***************************************************************************)
(* Python dict operations on an insertion-ordered map.                     *)
(***************************************************************************)
Entry(k, v) == [k |-> k, v |-> v]

Keys(m) == {m[i].k : i \in 1..Len(m)}

Has(m, k) == \E i \in 1..Len(m) : m[i].k = k

Get(m, k, d) ==
    IF Has(m, k) THEN m[CHOOSE i \in 1..Len(m) : m[i].k = k].v ELSE d

Put(m, k, v) ==
    IF Has(m, k)
    THEN [i \in 1..Len(m) |-> IF m[i].k = k THEN Entry(k, v) ELSE m[i]]
    ELSE Append(m, Entry(k, v))

RECURSIVE Update(_, _)
Update(m, r) ==
    IF r = <<>> THEN m
    ELSE Update(Put(m, Head(r).k, Head(r).v), Tail(r))

(* bool(x) of a tri-state value *)
Truthy(v) == v = "True"

PyBool(b) == IF b THEN "True" ELSE "False"

Text(n) == [len |-> n]

(***************************************************************************)
(* The pass/fail gate.                                                     *)
(***************************************************************************)
Reason(msg, n, detail, cut) ==
    [msg |-> msg, n |-> n, detail |-> detail, ellipsis |-> cut]

NoReason == Reason("None", 0, Text(0), FALSE)

(* the gate as it would be if it looked at the total issue count *)
DeterminePassAnyIssue(metrics) ==
    IF ~Truthy(Get(metrics, "functional_correctness", "False")) THEN FALSE
    ELSE IF Truthy(Get(metrics, "introduces_violations", "True")) THEN FALSE
    ELSE IF Has(metrics, "compiles") /\ ~Truthy(Get(metrics, "compiles", "None"))
         THEN FALSE
    ELSE IF Get(metrics, "security_issues", 0) > 0 THEN FALSE
    ELSE TRUE

DeterminePass(metrics) ==
    IF ~Truthy(Get(metrics, "functional_correctness", "False")) THEN FALSE
    ELSE IF Truthy(Get(metrics, "introduces_violations", "True")) THEN FALSE
    ELSE IF Has(metrics, "compiles") /\ ~Truthy(Get(metrics, "compiles", "None"))
         THEN FALSE
    ELSE IF Get(metrics, "high_severity_security", 0) > 0 THEN FALSE
    ELSE TRUE

DetermineFailureReason(metrics) ==
    IF ~Truthy(Get(metrics, "functional_correctness", "False"))
    THEN Reason("Does not resolve violation", 0, Text(0), FALSE)
    ELSE IF Truthy(Get(metrics, "introduces_violations", "False"))
    THEN Reason("Introduces new violations",
                Get(metrics, "new_violation_count", 0), Text(0), FALSE)
    ELSE IF Has(metrics, "compiles") /\ ~Truthy(Get(metrics, "compiles", "None"))
    THEN IF Has(metrics, "compilation_error")
         THEN LET error_msg == Get(metrics, "compilation_error", Text(0))
              IN  IF error_msg.len > SummaryLimit
                  THEN Reason("Compilation error: ", 0, Text(SummaryLimit), TRUE)
                  ELSE Reason("Compilation error: ", 0, error_msg, FALSE)
         ELSE Reason("Compilation error", 0, Text(0), FALSE)
    ELSE IF Get(metrics, "high_severity_security", 0) > 0
    THEN Reason("High severity security issues",
                Get(metrics, "high_severity_security", 0), Text(0), FALSE)
    ELSE Reason("Unknown failure", 0, Text(0), FALSE)

(* _evaluate_single, lines 343-345: the decision and its reason *)
Decide(metrics) ==
    LET passed == DeterminePass(metrics)
    IN  [passed |-> passed,
         failure_reason |-> IF passed THEN NoReason
                            ELSE DetermineFailureReason(metrics)]

(***************************************************************************)
(* Specification SpecGate: the gate applied to any metrics map.            *)
(***************************************************************************)
Opt(k, vals) == {<<>>} \cup {<<Entry(k, v)>> : v \in vals}

TriBool == {"True", "False"}

Counts == 0..MaxCount

ErrorTexts == {Text(ShortLen), Text(SummaryLimit + 1)}

GateKeys == {"functional_correctness", "introduces_violations",
             "new_violation_count", "compiles", "compilation_error",
             "high_severity_security"}

OtherKeys == {"security_issues", "tokens_used"}

GateMaps ==
    {a \o b \o c \o d \o e \o f :
        a \in Opt("compiles", TriBool \cup {"None"}),
        b \in Opt("compilation_error", ErrorTexts),
        c \in Opt("functional_correctness", TriBool),
        d \in Opt("introduces_violations", TriBool),
        e \in Opt("new_violation_count", Counts),
        f \in Opt("high_severity_security", Counts)}

GateStart ==
    /\ gm \in GateMaps
    /\ gm2 = gm
    /\ gedits = 0
    /\ gres = <<>>
    /\ gres2 = <<>>

(* no gate call under way *)
GateIdle ==
    /\ gm = <<>>
    /\ gm2 = <<>>
    /\ gedits = 0
    /\ gres = <<>>
    /\ gres2 = <<>>

(* the caller takes the decision for gm *)
GateDecide ==
    /\ gres = <<>>
    /\ gres' = <<Decide(gm)>>
    /\ UNCHANGED <<gm, gm2, gedits, gres2, evalVars, runVars, fetchVars, aggVars, unitVars>>

(* the same keys inserted in another order: two neighbours change places *)
GateReorder ==
    /\ gres2 = <<>>
    /\ gedits < MaxEdits
    /\ \E i \in 1..(Len(gm2) - 1) :
          gm2' = [gm2 EXCEPT ![i] = gm2[i + 1], ![i + 1] = gm2[i]]
    /\ gedits' = gedits + 1
    /\ UNCHANGED <<gm, gres, gres2, evalVars, runVars, fetchVars, aggVars, unitVars>>

(* a key the gate does not name is added or changed *)
GateSetOther ==
    /\ gres2 = <<>>
    /\ gedits < MaxEdits
    /\ \E k \in OtherKeys, v \in Counts :
          /\ Get(gm2, k, -1) # v
          /\ gm2' = Put(gm2, k, v)
    /\ gedits' = gedits + 1
    /\ UNCHANGED <<gm, gres, gres2, evalVars, runVars, fetchVars, aggVars, unitVars>>

(* a key the gate does not name is removed *)
GateDelOther ==
    /\ gres2 = <<>>
    /\ gedits < MaxEdits
    /\ \E k \in OtherKeys :
          /\ Has(gm2, k)
          /\ gm2' = SelectSeq(gm2, LAMBDA e : e.k # k)
    /\ gedits' = gedits + 1
    /\ UNCHANGED <<gm, gres, gres2, evalVars, runVars, fetchVars, aggVars, unitVars>>

GateDecide2 ==
    /\ gres2 = <<>>
    /\ gres2' = <<Decide(gm2)>>
    /\ UNCHANGED <<gm, gm2, gedits, gres, evalVars, runVars, fetchVars, aggVars, unitVars>>

GateNext ==
    \/ GateDecide
    \/ GateReorder
    \/ GateSetOther
    \/ GateDelOther
    \/ GateDecide2

(***************************************************************************)
(* The evaluators.  Each evaluate() is an operator from what the evaluator *)
(* reads (language, configuration, the outcome of its tools) to the map it *)
(* returns.                                                                *)
(***************************************************************************)
EvaluatorOrder ==
    <<"functional", "quality", "security", "efficiency", "explainability">>

EvaluatorNames == {EvaluatorOrder[i] : i \in 1..Len(EvaluatorOrder)}

Languages == {"java", "python", "go"}

(* an Optional number: None is <<>>, the number x is <<x>> *)
Null == <<>>
Some(x) == <<x>>

(* ---- functional ---- *)
CompileResult(compiles, error, runs, first) ==
    [compiles |-> compiles, error |-> error, runs |-> runs, first |-> first]

NoClassNameText == Text(38)       \* "Could not extract class name from code"
TimeoutText == Text(26)           \* "Compilation timeout (>30s)"
NotAvailableText == Text(19)      \* "javac not available"

(* what can happen to the compiler runs of one _compile_java call *)
JavacRuns(javac) == IF javac THEN {"ok", "fail", "timeout"} ELSE {"notfound"}

CompileEnvs(javac) ==
    {env \in [hasClass : BOOLEAN,
              run1 : JavacRuns(javac),
              pkgError : BOOLEAN,
              stripChanged : BOOLEAN,
              run2 : JavacRuns(javac),
              errLen1 : {0, ShortLen},
              errLen2 : {0, ShortLen + 1}] :
        env.pkgError => env.errLen1 > 0}

(* the outcome of the last compiler run; first: how the first run ended *)
JavacOutcome(run, errLen, runs, first) ==
    CASE run = "ok" -> CompileResult("True", Text(0), runs, first)
      [] run = "timeout" -> CompileResult("False", TimeoutText, runs, first)
      [] run = "notfound" -> CompileResult("None", NotAvailableText, runs, first)
      [] OTHER -> CompileResult("False", Text(errLen), runs, first)

(* _compile_java reporting a compiler that cannot be started as a failure *)
CompileJavaMissingIsFailure(env) ==
    IF ~env.hasClass THEN CompileResult("False", NoClassNameText, 0, "no_class")
    ELSE IF env.run1 = "notfound"
    THEN CompileResult("False", NotAvailableText, 1, env.run1)
    ELSE IF env.run1 = "fail" /\ env.pkgError /\ env.stripChanged
    THEN JavacOutcome(env.run2, env.errLen2, 2, env.run1)
    ELSE JavacOutcome(env.run1, env.errLen1, 1, env.run1)

CompileJava(env) ==
    IF ~env.hasClass THEN CompileResult("False", NoClassNameText, 0, "no_class")
    ELSE IF env.run1 = "fail" /\ env.pkgError /\ env.stripChanged
    THEN JavacOutcome(env.run2, env.errLen2, 2, env.run1)
    ELSE JavacOutcome(env.run1, env.errLen1, 1, env.run1)

CompilePython(syntaxOk) ==
    IF syntaxOk THEN CompileResult("True", Text(0), 0, "not_run")
    ELSE CompileResult("False", Text(ShortLen), 0, "not_run")

(* crash: an exception other than those _compile_java handles *)
CheckCompilation(language, env, syntaxOk, crash) ==
    IF crash /\ language \in {"java", "python"}
    THEN CompileResult("False", Text(ShortLen), 0, "not_run")
    ELSE IF language = "java" THEN CompileJava(env)
    ELSE IF language = "python" THEN CompilePython(syntaxOk)
    ELSE CompileResult("True", Text(0), 0, "not_run")

(* every result _check_compilation can give for a language on a machine *)
CompilationResults(language, javac) ==
    {CheckCompilation(language, env, syntaxOk, crash) :
        env \in CompileEnvs(javac), syntaxOk \in BOOLEAN, crash \in BOOLEAN}

FunctionalConfigs == [compile_check : BOOLEAN, static_analysis_rerun : BOOLEAN]

(* _check_violations: (violation_resolved, new_violations) *)
ViolationChecks == [resolved : BOOLEAN, new : {0, MaxCount}]

(* _semantic_match: <<>> when no expected code is supplied *)
ExpectedMatches == {<<>>, <<FALSE>>}

FunctionalEvaluate(config, cres, vres, mres) ==
    LET r1 == IF config.compile_check
              THEN LET c == <<Entry("compiles", cres.compiles)>>
                   IN  IF ~Truthy(cres.compiles) /\ cres.error.len > 0
                       THEN Put(c, "compilation_error", cres.error)
                       ELSE c
              ELSE <<>>
        r2 == IF config.static_analysis_rerun
              THEN Put(Put(Put(r1, "functional_correctness", PyBool(vres.resolved)),
                           "introduces_violations", PyBool(vres.new > 0)),
                       "new_violation_count", vres.new)
              ELSE r1
    IN  IF mres # <<>> THEN Put(r2, "matches_expected", PyBool(mres[1])) ELSE r2

(* ---- quality ---- *)
QualityToolSets == {{}, {"radon"}, {"pylint", "radon", "black"}}

(* tool results: a failed or missing tool gives None; the number a tool   *)
(* prints is taken as it is, "rated at 12/10" or {"mi": 130} included      *)
QualityToolResults ==
    {[pylint |-> Some(7), cc |-> Some(3), mi |-> Some(60), black |-> Some(0),
      javacc |-> 4],
     [pylint |-> Some(12), cc |-> Some(3), mi |-> Some(130), black |-> Some(1),
      javacc |-> 4],
     [pylint |-> Null, cc |-> Null, mi |-> Null, black |-> Null, javacc |-> 1]}

(* the style check reported under the key of the security findings *)
QualityEvaluateIssuesKey(language, tools, q) ==
    IF language = "python"
    THEN LET r1 == IF "pylint" \in tools
                   THEN <<Entry("pylint_score", q.pylint)>> ELSE <<>>
             r2 == IF "radon" \in tools
                   THEN Put(Put(r1, "cyclomatic_complexity", q.cc),
                            "maintainability_index", q.mi)
                   ELSE r1
         IN  IF "black" \in tools THEN Put(r2, "issues", q.black) ELSE r2
    ELSE IF language = "java"
    THEN <<Entry("cyclomatic_complexity", Some(q.javacc))>>
    ELSE <<>>

QualityEvaluate(language, tools, q) ==
    IF language = "python"
    THEN LET r1 == IF "pylint" \in tools
                   THEN <<Entry("pylint_score", q.pylint)>> ELSE <<>>
             r2 == IF "radon" \in tools
                   THEN Put(Put(r1, "cyclomatic_complexity", q.cc),
                            "maintainability_index", q.mi)
                   ELSE r1
         IN  IF "black" \in tools THEN Put(r2, "style_violations", q.black) ELSE r2
    ELSE IF language = "java"
    THEN <<Entry("cyclomatic_complexity", Some(q.javacc))>>
    ELSE <<>>

(* ---- security ---- *)
Finding(type, severity) == [type |-> type, severity |-> severity]

RECURSIVE CountSev(_, _)
CountSev(findings, sevs) ==
    IF findings = <<>> THEN 0
    ELSE (IF Head(findings).severity \in sevs THEN 1 ELSE 0)
         + CountSev(Tail(findings), sevs)

Types(findings) == [i \in 1..Len(findings) |-> findings[i].type]

FindingLists(sevs) ==
    UNION {[1..n -> {Finding("rule", s) : s \in sevs}] : n \in 0..MaxFindings}

(* _run_bandit: None, or the counts of bandit's results *)
RunBandit(out) ==
    IF out = Null THEN Null
    ELSE Some(<<Entry("security_issues", Len(out[1])),
                Entry("high_severity_security", CountSev(out[1], {"HIGH"})),
                Entry("issue_types", Types(out[1]))>>)

(* _run_semgrep: None, or the counts and the issues of semgrep's results *)
RunSemgrep(out) ==
    IF out = Null THEN Null
    ELSE Some(<<Entry("security_issues", Len(out[1])),
                Entry("high_severity_security",
                      CountSev(out[1], {"ERROR", "WARNING"})),
                Entry("issue_types", Types(out[1])),
                Entry("issues", out[1])>>)

CheckJavaSecurityPatterns(found) ==
    <<Entry("security_issues", Len(found)),
      Entry("high_severity_security", CountSev(found, {"HIGH"})),
      Entry("issue_types", Types(found)),
      Entry("issues", found)>>

SecurityToolSets == SUBSET {"bandit", "semgrep"}

SecurityEvaluate(language, tools, bandit, semgrep, patterns) ==
    LET results == <<Entry("security_issues", 0),
                     Entry("high_severity_security", 0),
                     Entry("issue_types", <<>>),
                     Entry("issues", <<>>)>>
    IN  IF language = "python" /\ "bandit" \in tools
        THEN IF RunBandit(bandit) # Null
             THEN Update(results, RunBandit(bandit)[1]) ELSE results
        ELSE IF language = "java"
        THEN IF "semgrep" \in tools /\ RunSemgrep(semgrep) # Null
             THEN Update(results, RunSemgrep(semgrep)[1])
             ELSE Update(results, CheckJavaSecurityPatterns(patterns))
        ELSE results

(* ---- efficiency ---- *)
Benchmarks == {"finished", "timeout", "error"}

EfficiencyEvaluate(language, hasTestCode, bench) ==
    IF ~hasTestCode THEN <<>>
    ELSE IF language = "python" /\ bench = "finished"
    THEN <<Entry("execution_time_ms", 12), Entry("memory_usage_mb", 9)>>
    ELSE <<>>

(* ---- explainability ---- *)
HeuristicScore(e) ==
    LET s1 == 5 - (IF e.words < 10 THEN 3 ELSE IF e.words < 20 THEN 1 ELSE 0)
        s2 == s1 - (IF e.words > 200 THEN 1 ELSE 0)
        s3 == s2 + (IF e.keyTerm THEN 1 ELSE 0)
        s4 == s3 + (IF e.structure THEN 1 ELSE 0)
        s5 == s4 + (IF e.codeRef THEN 1 ELSE 0)
        lo == IF s5 < 10 THEN s5 ELSE 10
    IN  IF lo > 0 THEN lo ELSE 0

(* an explanation as _heuristic_score reads it, with the comment lines,    *)
(* the non-blank lines and the comment markers of the generated code       *)
Explanations ==
    {[words |-> 5, keyTerm |-> FALSE, structure |-> FALSE, codeRef |-> FALSE,
      comments |-> 0, lines |-> 0, marker |-> FALSE],
     [words |-> 50, keyTerm |-> TRUE, structure |-> FALSE, codeRef |-> TRUE,
      comments |-> 1, lines |-> 4, marker |-> TRUE]}

HasComments(shape, language) ==
    IF language \in {"java", "javascript", "typescript", "python"}
    THEN shape.marker ELSE FALSE

(* a ratio n/d, kept as the two numbers *)
Ratio(n, d) == [num |-> n, den |-> d]

CalculateCommentDensity(shape, language) ==
    LET comment_lines ==
            IF language \in {"java", "javascript", "typescript", "python"}
            THEN shape.comments ELSE 0
    IN  IF shape.lines > 0 THEN Ratio(comment_lines, shape.lines)
        ELSE Ratio(0, 1)

ExplainabilityEvaluate(language, hasExplanation, e) ==
    LET results == <<Entry("has_explanation", PyBool(hasExplanation)),
                     Entry("has_inline_comments",
                           PyBool(HasComments(e, language))),
                     Entry("comment_density",
                           CalculateCommentDensity(e, language))>>
    IN  IF hasExplanation
        THEN Put(results, "explanation_quality_score", HeuristicScore(e))
        ELSE results

(***************************************************************************)
(* _evaluate_single: one (test case, model) pair.                          *)
(***************************************************************************)
PairModel == "model-a"
PairRule == "rule-1"
PairTest == "tc-1"

Result(model, rule, tc, metrics, passed, reason, cost) ==
    [model_name |-> model, rule_id |-> rule, test_case_id |-> tc,
     metrics |-> metrics, passed |-> passed, failure_reason |-> reason,
     estimated_cost |-> cost]

BuildErrorResult(model, rule, tc, error) ==
    Result(model, rule, tc, <<Entry("response_time_ms", 0)>>, FALSE,
           Reason("Error: ", 0, error, FALSE), 0)

(* what the provider's generate() does: it raises, or returns its map *)
ProviderReplies ==
    {<<Entry("response", "text"), Entry("tokens_used", 10), Entry("cost", 1)>>}

ProviderErrorText == Text(ShortLen)

(* (time.time() - start_time) * 1000 of a call, in milliseconds *)
ElapsedMs == 500

(* generate_with_timing that lets the provider's exception through as a    *)
(* result without the error entry                                          *)
GenerateWithTimingNoSentinel(raises, reply, elapsed) ==
    IF raises
    THEN <<Entry("response", ""), Entry("tokens_used", 0),
           Entry("response_time_ms", elapsed), Entry("cost", 0)>>
    ELSE Put(reply, "response_time_ms", elapsed)

GenerateWithTiming(raises, reply, elapsed) ==
    IF raises
    THEN <<Entry("response", ""), Entry("tokens_used", 0),
           Entry("response_time_ms", elapsed), Entry("cost", 0),
           Entry("error", ProviderErrorText)>>
    ELSE Put(reply, "response_time_ms", elapsed)

(* _build_prompt raises when the rule fetch raises or the template does    *)
(* not format                                                              *)
FetchOutcomes == {"rule", "none", "raises"}

(* what the ruleset's server and file give to one call of fetch_rule: the  *)
(* URL is not a GitHub URL, the request fails, the status is an error, the *)
(* text is not YAML, the document is not a list, the list has no such      *)
(* rule, an item before the rule has "rules: null", the rule is an item    *)
(* of the list, the rule is nested in an item's "rules"                    *)
FetchAnswers == {"unconvertible", "network_error", "bad_status",
                 "invalid_yaml", "not_a_list", "not_found", "rules_null",
                 "flat_rule", "nested_rule"}

(* _find_rule_by_id: "for rule in rules" raises TypeError on None *)
FindRuleById(answer) ==
    IF answer = "not_a_list" THEN "none"
    ELSE IF answer = "rules_null" THEN "raises"
    ELSE IF answer \in {"flat_rule", "nested_rule"} THEN "rule"
    ELSE "none"

(* fetch_rule after the cache test: None, the rule, or an exception that   *)
(* is neither RequestException nor YAMLError                               *)
FetchRule(answer) ==
    IF answer = "unconvertible" THEN "none"
    ELSE IF answer \in {"network_error", "bad_status", "invalid_yaml"}
    THEN "none"
    ELSE FindRuleById(answer)

(* _build_prompt, step 3: the message of the rule, "" without one *)
KonveyorMessage(got) == IF got \in {"rule", "cached"} THEN "message" ELSE ""

BuildPromptRaises(hasSource, fetch, templateFormats) ==
    (hasSource /\ fetch = "raises") \/ ~templateFormats

Pending == [st |-> "pending", out |-> <<>>]
Skipped == [st |-> "skipped", out |-> <<>>]
Raised == [st |-> "raised", out |-> <<>>]
Returned(out) == [st |-> "returned", out |-> out]

(* the loop of _run_evaluators after an evaluator raised: it stops *)
AfterRaiseStop(idx) == Len(EvaluatorOrder) + 1

(* the loop of _run_evaluators after an evaluator raised: next evaluator *)
AfterRaise(idx) == idx + 1

(* result.get("metrics", {}).get("compiles", False) of the aggregators *)
CountsAsCompiled(result) == Truthy(Get(result.metrics, "compiles", "False"))

(* the evaluators a configuration enables: all, the default (no           *)
(* efficiency), the two that feed the gate, none                           *)
EnabledSets == {EvaluatorNames, EvaluatorNames \ {"efficiency"},
                {"functional", "security"}, {}}

(* lines 333-362 of _evaluate_single: the timing entries, the explanation  *)
(* of a compilation error, the decision and the result                     *)
FinishResult(model, rule, tc, metrics, gen) ==
    LET m1 == Put(metrics, "response_time_ms", Get(gen, "response_time_ms", 0))
        m2 == Put(m1, "tokens_used", Get(gen, "tokens_used", 0))
        m3 == IF ~Truthy(Get(m2, "compiles", "True"))
                 /\ Has(m2, "compilation_error")
              THEN Put(m2, "compilation_error_explanation", Text(ShortLen))
              ELSE m2
        d == Decide(m3)
    IN  Result(model, rule, tc, m3, d.passed, d.failure_reason,
               Get(gen, "cost", 0))

EvalStart ==
    /\ elang \in Languages
    /\ ejavac \in (IF elang = "java" THEN BOOLEAN ELSE {TRUE})
    /\ eenabled \in EnabledSets
    /\ epc = "build_prompt"
    /\ eidx = 1
    /\ emetrics = <<>>
    /\ eout = [n \in EvaluatorNames |-> Pending]
    /\ eprov = "pending"
    /\ egen = <<>>
    /\ eexpl = FALSE
    /\ ejrun = "not_run"
    /\ ebench = "not_run"
    /\ eresult = <<>>

(* no pair under evaluation *)
EvalIdle ==
    /\ elang = "java"
    /\ ejavac = FALSE
    /\ eenabled = {}
    /\ epc = "idle"
    /\ eidx = 1
    /\ emetrics = <<>>
    /\ eout = [n \in EvaluatorNames |-> Pending]
    /\ eprov = "pending"
    /\ egen = <<>>
    /\ eexpl = FALSE
    /\ ejrun = "not_run"
    /\ ebench = "not_run"
    /\ eresult = <<>>

(* _build_prompt, outside the try block: an exception leaves the call *)
EBuildPrompt ==
    /\ epc = "build_prompt"
    /\ \E hasSource \in BOOLEAN, fetch \in FetchOutcomes, fmt \in BOOLEAN :
          epc' = IF BuildPromptRaises(hasSource, fetch, fmt)
                 THEN "raised" ELSE "generate"
    /\ UNCHANGED <<elang, ejavac, eenabled, eidx, emetrics, eout, eprov, egen,
                   eexpl, ejrun, ebench, eresult, gateVars, runVars, fetchVars, aggVars, unitVars>>

(* model.generate_with_timing(prompt) and the test for "error" *)
EGenerate ==
    /\ epc = "generate"
    /\ \E raises \in BOOLEAN, reply \in ProviderReplies :
          /\ eprov' = IF raises THEN "raised" ELSE "returned"
          /\ egen' = GenerateWithTiming(raises, reply, ElapsedMs)
    /\ IF Has(egen', "error")
       THEN /\ eresult' = <<BuildErrorResult(PairModel, PairRule, PairTest,
                                              Get(egen', "error", Text(0)))>>
            /\ epc' = "returned"
       ELSE /\ eresult' = eresult
            /\ epc' = "extract"
    /\ UNCHANGED <<elang, ejavac, eenabled, eidx, emetrics, eout, eexpl, ejrun, ebench,
                   gateVars, runVars, fetchVars, aggVars, unitVars>>

(* model.extract_code_and_explanation; an exception is caught by the try *)
EExtract ==
    /\ epc = "extract"
    /\ \/ /\ \E expl \in BOOLEAN : eexpl' = expl
          /\ epc' = "evaluators"
          /\ eresult' = eresult
       \/ /\ eexpl' = eexpl
          /\ epc' = "returned"
          /\ eresult' = <<BuildErrorResult(PairModel, PairRule, PairTest,
                                            Text(ShortLen))>>
    /\ UNCHANGED <<elang, ejavac, eenabled, eidx, emetrics, eout, eprov, egen,
                   ejrun, ebench, gateVars, runVars, fetchVars, aggVars, unitVars>>

(* one turn of the loop of _run_evaluators for evaluator name, whose       *)
(* evaluate() can return any map of outs or raise                          *)
AtEvaluator(name) ==
    /\ epc = "evaluators"
    /\ eidx <= Len(EvaluatorOrder)
    /\ EvaluatorOrder[eidx] = name

RunEvaluator(name, outs) ==
    /\ \/ /\ name \notin eenabled
          /\ eout' = [eout EXCEPT ![name] = Skipped]
          /\ emetrics' = emetrics
          /\ eidx' = eidx + 1
       \/ /\ name \in eenabled
          /\ eout' = [eout EXCEPT ![name] = Raised]
          /\ emetrics' = emetrics
          /\ eidx' = AfterRaise(eidx)
       \/ /\ name \in eenabled
          /\ \E out \in outs :
                /\ eout' = [eout EXCEPT ![name] = Returned(out)]
                /\ emetrics' = Update(emetrics, out)
          /\ eidx' = eidx + 1
    /\ UNCHANGED <<elang, ejavac, eenabled, epc, eprov, egen, eexpl, eresult,
                   gateVars, runVars, fetchVars, aggVars, unitVars>>

ERunFunctional ==
    /\ AtEvaluator("functional")
    /\ \E config \in FunctionalConfigs, cres \in CompilationResults(elang, ejavac),
       vres \in ViolationChecks, mres \in ExpectedMatches :
         /\ RunEvaluator("functional",
                         {FunctionalEvaluate(config, cres, vres, mres)})
         /\ ejrun' = IF eout'["functional"].st = "returned" /\ config.compile_check
                     THEN cres.first ELSE ejrun
         /\ ebench' = ebench

ERunQuality ==
    /\ AtEvaluator("quality")
    /\ RunEvaluator("quality",
           {QualityEvaluate(elang, tools, q) :
               tools \in QualityToolSets, q \in QualityToolResults})
    /\ ejrun' = ejrun
    /\ ebench' = ebench

ERunSecurity ==
    /\ AtEvaluator("security")
    /\ RunEvaluator("security",
           {SecurityEvaluate(elang, tools, bandit, semgrep, patterns) :
               tools \in SecurityToolSets,
               bandit \in {Null} \cup {Some(f) : f \in FindingLists({"HIGH", "LOW"})},
               semgrep \in {Null} \cup {Some(f) : f \in FindingLists({"ERROR", "INFO"})},
               patterns \in FindingLists({"HIGH", "MEDIUM"})})
    /\ ejrun' = ejrun
    /\ ebench' = ebench

ERunEfficiency ==
    /\ AtEvaluator("efficiency")
    /\ \E hasTest \in BOOLEAN, bench \in Benchmarks :
          /\ RunEvaluator("efficiency",
                          {EfficiencyEvaluate(elang, hasTest, bench)})
          /\ ebench' = IF eout'["efficiency"].st = "returned"
                          /\ hasTest /\ elang = "python"
                       THEN bench ELSE ebench
    /\ ejrun' = ejrun

ERunExplainability ==
    /\ AtEvaluator("explainability")
    /\ RunEvaluator("explainability",
           {ExplainabilityEvaluate(elang, eexpl, e) : e \in Explanations})
    /\ ejrun' = ejrun
    /\ ebench' = ebench

(* the end of the try block: the result of the pair *)
EFinish ==
    /\ epc = "evaluators"
    /\ eidx > Len(EvaluatorOrder)
    /\ eresult' = <<FinishResult(PairModel, PairRule, PairTest, emetrics, egen)>>
    /\ epc' = "returned"
    /\ UNCHANGED <<elang, ejavac, eenabled, eidx, emetrics, eout, eprov, egen,
                   eexpl, ejrun, ebench, gateVars, runVars, fetchVars, aggVars, unitVars>>

EvalNext ==
    \/ EBuildPrompt
    \/ EGenerate
    \/ EExtract
    \/ ERunFunctional
    \/ ERunQuality
    \/ ERunSecurity
    \/ ERunEfficiency
    \/ ERunExplainability
    \/ EFinish

(***************************************************************************)
(* Exact arithmetic for the reporter's scores: a number is a ratio         *)
(* [num, den] with den > 0.                                                *)
(***************************************************************************)
RECURSIVE GCD(_, _)
GCD(a, b) == IF b = 0 THEN a ELSE GCD(b, a % b)

Abs(x) == IF x < 0 THEN 0 - x ELSE x

Norm(r) ==
    LET g == GCD(Abs(r.num), r.den)
    IN  IF r.num = 0 THEN Ratio(0, 1) ELSE Ratio(r.num \div g, r.den \div g)

FromInt(n) == Ratio(n, 1)

(* the sums, products and comparisons bring both ratios to the least       *)
(* common denominator, which keeps the numbers small                       *)
RAdd(a, b) ==
    LET g == GCD(a.den, b.den)
    IN  Norm(Ratio(a.num * (b.den \div g) + b.num * (a.den \div g),
                   (a.den \div g) * b.den))
RSub(a, b) ==
    LET g == GCD(a.den, b.den)
    IN  Norm(Ratio(a.num * (b.den \div g) - b.num * (a.den \div g),
                   (a.den \div g) * b.den))
RMul(a, b) ==
    LET x == Norm(Ratio(a.num, b.den))
        y == Norm(Ratio(b.num, a.den))
    IN  Norm(Ratio(x.num * y.num, x.den * y.den))
RDivInt(a, n) == Norm(Ratio(a.num, a.den * n))
RLess(a, b) ==
    LET g == GCD(a.den, b.den)
    IN  a.num * (b.den \div g) < b.num * (a.den \div g)
RMax0(a) == IF a.num < 0 THEN Ratio(0, 1) ELSE a

RECURSIVE SumSeq(_)
SumSeq(q) == IF q = <<>> THEN 0 ELSE Head(q) + SumSeq(Tail(q))

(***************************************************************************)
(* HTMLReporter._aggregate_by_model and _rank_models.  estimated_cost is   *)
(* counted in cents.                                                       *)
(***************************************************************************)
NewStats ==
    [total |-> 0, passed |-> 0, failed |-> 0, compiled |-> 0,
     results |-> <<>>, response_times |-> <<>>, costs |-> <<>>,
     complexities |-> <<>>, pylint_scores |-> <<>>,
     maintainability_scores |-> <<>>]

(* a fold that fills in a zero for a result without the metric *)
AppendOrZero(list, metrics, key) ==
    IF Get(metrics, key, Null) # Null
    THEN Append(list, Get(metrics, key, Null)[1]) ELSE Append(list, 0)

(* the value of an Optional metric appended to a list when it is not None *)
AppendPresent(list, metrics, key) ==
    IF Get(metrics, key, Null) # Null
    THEN Append(list, Get(metrics, key, Null)[1]) ELSE list

(* a fold that drops the results that did not pass *)
FoldResultDropsFailures(stats, result) ==
    IF ~result.passed THEN stats ELSE
    [total |-> stats.total + 1,
     passed |-> stats.passed + (IF result.passed THEN 1 ELSE 0),
     failed |-> stats.failed + (IF result.passed THEN 0 ELSE 1),
     compiled |-> stats.compiled + (IF CountsAsCompiled(result) THEN 1 ELSE 0),
     results |-> Append(stats.results, result),
     response_times |-> Append(stats.response_times,
                               Get(result.metrics, "response_time_ms", 0)),
     costs |-> Append(stats.costs, result.estimated_cost),
     complexities |-> AppendPresent(stats.complexities, result.metrics,
                                    "cyclomatic_complexity"),
     pylint_scores |-> AppendPresent(stats.pylint_scores, result.metrics,
                                     "pylint_score"),
     maintainability_scores |-> AppendPresent(stats.maintainability_scores,
                                              result.metrics,
                                              "maintainability_index")]

(* one turn of the loop of _aggregate_by_model *)
FoldResult(stats, result) ==
    [total |-> stats.total + 1,
     passed |-> stats.passed + (IF result.passed THEN 1 ELSE 0),
     failed |-> stats.failed + (IF result.passed THEN 0 ELSE 1),
     compiled |-> stats.compiled + (IF CountsAsCompiled(result) THEN 1 ELSE 0),
     results |-> Append(stats.results, result),
     response_times |-> Append(stats.response_times,
                               Get(result.metrics, "response_time_ms", 0)),
     costs |-> Append(stats.costs, result.estimated_cost),
     complexities |-> AppendPresent(stats.complexities, result.metrics,
                                    "cyclomatic_complexity"),
     pylint_scores |-> AppendPresent(stats.pylint_scores, result.metrics,
                                     "pylint_score"),
     maintainability_scores |-> AppendPresent(stats.maintainability_scores,
                                              result.metrics,
                                              "maintainability_index")]

RECURSIVE AggregateFrom(_, _)
AggregateFrom(model_stats, results) ==
    IF results = <<>> THEN model_stats
    ELSE LET r == Head(results)
             old == Get(model_stats, r.model_name, NewStats)
         IN  AggregateFrom(Put(model_stats, r.model_name, FoldResult(old, r)),
                           Tail(results))

AggregateByModel(results) == AggregateFrom(<<>>, results)

(* the average of a list of numbers, None for the empty list *)
Average(list) ==
    IF list = <<>> THEN Null ELSE Some(Norm(Ratio(SumSeq(list), Len(list))))

(* "max(0, 100 - (avg_complexity - 1) * 3.33)" *)
ComplexityScore(avg_complexity) ==
    RMax0(RSub(FromInt(100), RMul(RSub(avg_complexity, FromInt(1)),
                                  Ratio(333, 100))))

(* a time score that loses one point per second *)
TimeScorePerSecond(avg_response_time) ==
    RMax0(RSub(FromInt(100), RDivInt(avg_response_time, 1000)))

(* "max(0, 100 - (avg_response_time / 100))" *)
TimeScore(avg_response_time) ==
    RMax0(RSub(FromInt(100), RDivInt(avg_response_time, 100)))

(* "max(0, 100 - (total_cost * 100)) if total_cost > 0 else 100" *)
CostScore(total_cost) ==
    IF total_cost.num > 0
    THEN RMax0(RSub(FromInt(100), RMul(total_cost, FromInt(100))))
    ELSE FromInt(100)

(* passed / total * 100, 0 for no result *)
Rate(count, total) ==
    IF total > 0 THEN Norm(Ratio(count * 100, total)) ELSE FromInt(0)

(* the composite score and the other fields of one ranking entry *)
RankEntry(model_name, stats) ==
    LET pass_rate == Rate(stats.passed, stats.total)
        compile_rate == Rate(stats.compiled, stats.total)
        avg_response_time == IF stats.response_times # <<>>
                             THEN Average(stats.response_times)[1]
                             ELSE FromInt(0)
        total_cost == Norm(Ratio(SumSeq(stats.costs), 100))
        avg_complexity == Average(stats.complexities)
        avg_maintainability == Average(stats.maintainability_scores)
        complexity_score == ComplexityScore(avg_complexity[1])
        quality_score ==
            RAdd(IF avg_complexity # Null THEN complexity_score ELSE FromInt(0),
                 IF avg_maintainability # Null THEN avg_maintainability[1]
                 ELSE FromInt(0))
        quality_count == (IF avg_complexity # Null THEN 1 ELSE 0)
                         + (IF avg_maintainability # Null THEN 1 ELSE 0)
        time_score == TimeScore(avg_response_time)
        cost_score == CostScore(total_cost)
        s1 == RMul(pass_rate, Ratio(1, 2))
        s2 == RAdd(s1, RMul(compile_rate, Ratio(1, 5)))
        s3 == IF quality_count > 0
              THEN RAdd(s2, RMul(RDivInt(quality_score, quality_count),
                                 Ratio(1, 5)))
              ELSE s2
        s4 == RAdd(s3, RMul(time_score, Ratio(1, 20)))
        s5 == RAdd(s4, RMul(cost_score, Ratio(1, 20)))
    IN  [model_name |-> model_name, score |-> s5, pass_rate |-> pass_rate,
         compile_rate |-> compile_rate,
         avg_response_time |-> avg_response_time, total_cost |-> total_cost,
         avg_complexity |-> avg_complexity,
         avg_maintainability |-> avg_maintainability,
         tests_passed |-> stats.passed, tests_total |-> stats.total]

(* a sort that puts an entry before the entries of equal score *)
RECURSIVE InsertByScoreTiesFirst(_, _)
InsertByScoreTiesFirst(sorted, x) ==
    IF sorted = <<>> THEN <<x>>
    ELSE IF ~RLess(x.score, Head(sorted).score) THEN <<x>> \o sorted
    ELSE <<Head(sorted)>> \o InsertByScoreTiesFirst(Tail(sorted), x)

(* list.sort(key=score, reverse=True): stable, equal scores keep their order *)
RECURSIVE InsertByScore(_, _)
InsertByScore(sorted, x) ==
    IF sorted = <<>> THEN <<x>>
    ELSE IF RLess(Head(sorted).score, x.score) THEN <<x>> \o sorted
    ELSE <<Head(sorted)>> \o InsertByScore(Tail(sorted), x)

RECURSIVE SortByScore(_, _)
SortByScore(sorted, rest) ==
    IF rest = <<>> THEN sorted
    ELSE SortByScore(InsertByScore(sorted, Head(rest)), Tail(rest))

RankModels(model_stats) ==
    SortByScore(<<>>, [i \in 1..Len(model_stats) |->
                          RankEntry(model_stats[i].k, model_stats[i].v)])

(***************************************************************************)
(* HTMLReporterGrafana._aggregate_by_model and _rank_models: the scheme of *)
(* seven factors.                                                          *)
(***************************************************************************)
GrafanaNewStats ==
    [total |-> 0, passed |-> 0, failed |-> 0, compiled |-> 0,
     response_times |-> <<>>, costs |-> <<>>,
     complexities |-> <<>>, pylint_scores |-> <<>>,
     maintainability_scores |-> <<>>, security_issues |-> <<>>,
     explanation_scores |-> <<>>, comment_densities |-> <<>>]

(* the value of a metric that is never None, appended when the key is set *)
AppendSet(list, metrics, key) ==
    IF Has(metrics, key) THEN Append(list, Get(metrics, key, 0)) ELSE list

GrafanaFoldResult(stats, result) ==
    [total |-> stats.total + 1,
     passed |-> stats.passed + (IF result.passed THEN 1 ELSE 0),
     failed |-> stats.failed + (IF result.passed THEN 0 ELSE 1),
     compiled |-> stats.compiled + (IF CountsAsCompiled(result) THEN 1 ELSE 0),
     response_times |-> Append(stats.response_times,
                               Get(result.metrics, "response_time_ms", 0)),
     costs |-> Append(stats.costs, result.estimated_cost),
     complexities |-> AppendPresent(stats.complexities, result.metrics,
                                    "cyclomatic_complexity"),
     pylint_scores |-> AppendPresent(stats.pylint_scores, result.metrics,
                                     "pylint_score"),
     maintainability_scores |-> AppendPresent(stats.maintainability_scores,
                                              result.metrics,
                                              "maintainability_index"),
     security_issues |-> AppendSet(stats.security_issues, result.metrics,
                                   "security_issues"),
     explanation_scores |-> AppendSet(stats.explanation_scores, result.metrics,
                                      "explanation_quality_score"),
     comment_densities |-> AppendSet(stats.comment_densities, result.metrics,
                                     "comment_density")]

RECURSIVE GrafanaAggregateFrom(_, _)
GrafanaAggregateFrom(model_stats, results) ==
    IF results = <<>> THEN model_stats
    ELSE LET r == Head(results)
             old == Get(model_stats, r.model_name, GrafanaNewStats)
         IN  GrafanaAggregateFrom(
                 Put(model_stats, r.model_name, GrafanaFoldResult(old, r)),
                 Tail(results))

GrafanaAggregateByModel(results) == GrafanaAggregateFrom(<<>>, results)

RECURSIVE RSumSeq(_)
RSumSeq(q) == IF q = <<>> THEN FromInt(0) ELSE RAdd(Head(q), RSumSeq(Tail(q)))

(* the average of a list of ratios, None for the empty list *)
RAverage(list) ==
    IF list = <<>> THEN Null ELSE Some(RDivInt(RSumSeq(list), Len(list)))

(* "max(0, 100 - (avg_security_issues * 20))" *)
SecurityScore(avg_security_issues) ==
    RMax0(RSub(FromInt(100), RMul(avg_security_issues, FromInt(20))))

(* the score of the average comment density, lines 602-615 *)
DensityScore(avg_comment_density) ==
    LET percentage == RMul(avg_comment_density, FromInt(100))
    IN  IF ~RLess(percentage, FromInt(10)) /\ ~RLess(FromInt(30), percentage)
        THEN FromInt(100)
        ELSE IF RLess(FromInt(30), percentage)
        THEN RMax0(RSub(FromInt(100),
                        RMul(RSub(percentage, FromInt(30)), Ratio(333, 100))))
        ELSE IF RLess(FromInt(0), percentage)
        THEN RMul(percentage, FromInt(10))
        ELSE FromInt(0)

GrafanaRankEntry(model_name, stats) ==
    LET pass_rate == Rate(stats.passed, stats.total)
        compile_rate == Rate(stats.compiled, stats.total)
        avg_response_time == IF stats.response_times # <<>>
                             THEN Average(stats.response_times)[1]
                             ELSE FromInt(0)
        total_cost == Norm(Ratio(SumSeq(stats.costs), 100))
        avg_complexity == Average(stats.complexities)
        avg_maintainability == Average(stats.maintainability_scores)
        avg_security_issues == Average(stats.security_issues)
        avg_explanation_score == Average(stats.explanation_scores)
        avg_comment_density == RAverage(stats.comment_densities)
        quality_score ==
            RAdd(IF avg_complexity # Null
                 THEN ComplexityScore(avg_complexity[1]) ELSE FromInt(0),
                 IF avg_maintainability # Null THEN avg_maintainability[1]
                 ELSE FromInt(0))
        quality_count == (IF avg_complexity # Null THEN 1 ELSE 0)
                         + (IF avg_maintainability # Null THEN 1 ELSE 0)
        explainability_score ==
            RAdd(IF avg_explanation_score # Null
                 THEN RMul(avg_explanation_score[1], FromInt(10))
                 ELSE FromInt(0),
                 IF avg_comment_density # Null
                 THEN DensityScore(avg_comment_density[1]) ELSE FromInt(0))
        explainability_count ==
            (IF avg_explanation_score # Null THEN 1 ELSE 0)
            + (IF avg_comment_density # Null THEN 1 ELSE 0)
        s1 == RMul(pass_rate, Ratio(2, 5))
        s2 == RAdd(s1, RMul(compile_rate, Ratio(3, 20)))
        s3 == IF quality_count > 0
              THEN RAdd(s2, RMul(RDivInt(quality_score, quality_count),
                                 Ratio(3, 20)))
              ELSE s2
        s4 == IF avg_security_issues # Null
              THEN RAdd(s3, RMul(SecurityScore(avg_security_issues[1]),
                                 Ratio(3, 20)))
              ELSE s3
        s5 == IF explainability_count > 0
              THEN RAdd(s4, RMul(RDivInt(explainability_score,
                                         explainability_count), Ratio(1, 10)))
              ELSE s4
        s6 == RAdd(s5, RMul(TimeScore(avg_response_time), Ratio(1, 40)))
        s7 == RAdd(s6, RMul(CostScore(total_cost), Ratio(1, 40)))
    IN  [model_name |-> model_name, score |-> s7, pass_rate |-> pass_rate,
         compile_rate |-> compile_rate,
         avg_response_time |-> avg_response_time, total_cost |-> total_cost,
         avg_complexity |-> avg_complexity,
         avg_maintainability |-> avg_maintainability,
         avg_security_issues |-> avg_security_issues,
         avg_explanation_score |-> avg_explanation_score,
         avg_comment_density |-> avg_comment_density,
         tests_passed |-> stats.passed, tests_total |-> stats.total]

GrafanaRankModels(model_stats) ==
    SortByScore(<<>>, [i \in 1..Len(model_stats) |->
                          GrafanaRankEntry(model_stats[i].k, model_stats[i].v)])

(***************************************************************************)
(* evaluate(): the run over a test suite.                                  *)
(***************************************************************************)
MaxTests == 2
MaxWorkers == 3

(* self.models in configuration order, and the order of their names *)
RunModels == <<"model-b", "model-c", "model-a">>
NameOrder == <<"model-a", "model-b", "model-c">>

NameRank(name) == CHOOSE i \in 1..Len(NameOrder) : NameOrder[i] = name

(* the suites: the number of test cases of each rule *)
Suites == {q \in UNION {[1..n -> 0..MaxTests] : n \in 1..MaxTests} :
              SumSeq(q) \in 1..MaxTests}

Limits == {Null} \cup {Some(n) : n \in 0..MaxTests}

(* "self.limit and completed_test_cases >= self.limit" *)
LimitReached(limit, completed) ==
    limit # Null /\ limit[1] # 0 /\ completed >= limit[1]

(* the test case at which the two for loops stop next, from the inner loop *)
(* at test case ti of rule ri; <<>> when evaluate() leaves the loops       *)
RECURSIVE NextCase(_, _, _, _, _)
NextCase(suite, limit, completed, ri, ti) ==
    IF ri > Len(suite) THEN <<>>
    ELSE IF ti = 1 /\ LimitReached(limit, completed) THEN <<>>
    ELSE IF ti > suite[ri] THEN NextCase(suite, limit, completed, ri + 1, 1)
    ELSE IF LimitReached(limit, completed)
    THEN NextCase(suite, limit, completed, ri + 1, 1)
    ELSE <<ri, ti>>

(* the merged metrics a pair's evaluators can give to a run *)
RunMetrics ==
    {<<Entry("compiles", "True"), Entry("functional_correctness", "True"),
       Entry("introduces_violations", "False"),
       Entry("cyclomatic_complexity", Some(3)),
       Entry("high_severity_security", 0)>>}

(* tasks that all evaluate with the first model of the configuration *)
PairOutcomesFirstModel(model, rule, tc, down) ==
    {<<>>}
    \cup {Some(FinishResult(RunModels[1], rule, tc, m,
                            GenerateWithTiming(FALSE, reply, ElapsedMs))) :
             m \in RunMetrics, reply \in ProviderReplies}

(* what _evaluate_single gives for a pair: <<result>>, or <<>> when an     *)
(* exception leaves it                                                     *)
PairOutcomes(model, rule, tc, down) ==
    {<<>>}
    \cup (IF model = down
          THEN {Some(BuildErrorResult(model, rule, tc, ProviderErrorText))}
          ELSE {Some(FinishResult(model, rule, tc, m,
                                  GenerateWithTiming(FALSE, reply, ElapsedMs))) :
                   m \in RunMetrics, reply \in ProviderReplies})

(* test_results.sort(key=model_name): stable *)
RECURSIVE InsertByName(_, _)
InsertByName(sorted, x) ==
    IF sorted = <<>> THEN <<x>>
    ELSE IF NameRank(x.model_name) < NameRank(Head(sorted).model_name)
    THEN <<x>> \o sorted
    ELSE <<Head(sorted)>> \o InsertByName(Tail(sorted), x)

RECURSIVE SortByName(_, _)
SortByName(sorted, rest) ==
    IF rest = <<>> THEN sorted
    ELSE SortByName(InsertByName(sorted, Head(rest)), Tail(rest))

(* a pool that starts every submitted task at once *)
TakeAll(q, n) == q

(* the first n elements of a sequence, and the rest *)
Take(q, n) == SubSeq(q, 1, IF n < Len(q) THEN n ELSE Len(q))
Drop(q, n) == SubSeq(q, (IF n < Len(q) THEN n ELSE Len(q)) + 1, Len(q))
Range(q) == {q[i] : i \in 1..Len(q)}

RunStart ==
    /\ rworkers \in 1..MaxWorkers
    /\ rdown \in Range(RunModels) \cup {"none"}
    /\ rlimit \in Limits
    /\ rsuite \in Suites
    /\ rpc = "loop"
    /\ rpos = <<1, 1>>
    /\ rcompleted = 0
    /\ rnext = 1
    /\ rrunning = {}
    /\ rqueue = <<>>
    /\ rtest = <<>>
    /\ rall = <<>>
    /\ rshown = <<>>

(* no run *)
RunIdle ==
    /\ rworkers = 1
    /\ rdown = "none"
    /\ rlimit = Null
    /\ rsuite = <<>>
    /\ rpc = "idle"
    /\ rpos = <<1, 1>>
    /\ rcompleted = 0
    /\ rnext = 1
    /\ rrunning = {}
    /\ rqueue = <<>>
    /\ rtest = <<>>
    /\ rall = <<>>
    /\ rshown = <<>>

(* the head of the loops: the limit checks, then the tasks of the next     *)
(* test case; in parallel mode the pool starts max_workers of them         *)
RNextTestCase ==
    /\ rpc = "loop"
    /\ LET next == NextCase(rsuite, rlimit, rcompleted, rpos[1], rpos[2])
       IN  IF next = <<>>
           THEN /\ rpc' = "done"
                /\ UNCHANGED <<rpos, rnext, rrunning, rqueue, rtest>>
           ELSE /\ rpos' = next
                /\ IF rworkers = 1
                   THEN /\ rpc' = "sequential"
                        /\ rnext' = 1
                        /\ UNCHANGED <<rrunning, rqueue, rtest>>
                   ELSE /\ rpc' = "parallel"
                        /\ rrunning' = Range(Take(RunModels, rworkers))
                        /\ rqueue' = Drop(RunModels, rworkers)
                        /\ rtest' = <<>>
                        /\ rnext' = rnext
    /\ UNCHANGED <<rworkers, rdown, rlimit, rsuite, rcompleted, rall, rshown,
                   gateVars, evalVars, fetchVars, aggVars, unitVars>>

(* sequential mode: the next model of the test case *)
RSequential ==
    /\ rpc = "sequential"
    /\ \E o \in PairOutcomes(RunModels[rnext], rpos[1], rpos, rdown) :
          IF o = <<>>
          THEN /\ rpc' = "aborted"
               /\ UNCHANGED <<rnext, rall, rcompleted, rpos>>
          ELSE /\ rall' = Append(rall, o[1])
               /\ IF rnext < Len(RunModels)
                  THEN /\ rnext' = rnext + 1
                       /\ UNCHANGED <<rpc, rcompleted, rpos>>
                  ELSE /\ rnext' = 1
                       /\ rcompleted' = rcompleted + 1
                       /\ rpos' = <<rpos[1], rpos[2] + 1>>
                       /\ rpc' = "loop"
    /\ UNCHANGED <<rworkers, rdown, rlimit, rsuite, rrunning, rqueue, rtest, rshown,
                   gateVars, evalVars, fetchVars, aggVars, unitVars>>

(* parallel mode: an evaluation in flight completes and as_completed hands *)
(* its future to the collecting loop; the freed worker takes the next      *)
(* queued task.  future.result() re-raises what the worker raised: the     *)
(* with block waits for the other workers and the exception leaves.        *)
RComplete ==
    /\ rpc = "parallel"
    /\ \E m \in rrunning : \E o \in PairOutcomes(m, rpos[1], rpos, rdown) :
          IF o = <<>>
          THEN /\ rpc' = "aborted"
               /\ rrunning' = {}
               /\ rqueue' = <<>>
               /\ UNCHANGED <<rtest, rall>>
          ELSE /\ rtest' = Append(rtest, o[1])
               /\ rall' = Append(rall, o[1])
               /\ rrunning' = (rrunning \ {m}) \cup Range(Take(rqueue, 1))
               /\ rqueue' = Drop(rqueue, 1)
               /\ rpc' = IF rrunning' = {} THEN "batch_end" ELSE "parallel"
    /\ UNCHANGED <<rworkers, rdown, rlimit, rsuite, rpos, rcompleted, rnext, rshown,
                   gateVars, evalVars, fetchVars, aggVars, unitVars>>

(* parallel mode, the pool joined: the batch's results are sorted by model *)
(* name and shown, and the test case is counted                            *)
RBatchEnd ==
    /\ rpc = "batch_end"
    /\ rtest' = SortByName(<<>>, rtest)
    /\ rshown' = Append(rshown, [i \in 1..Len(rtest') |->
                                    <<rtest'[i].model_name, rtest'[i].passed>>])
    /\ rcompleted' = rcompleted + 1
    /\ rpos' = <<rpos[1], rpos[2] + 1>>
    /\ rpc' = "loop"
    /\ UNCHANGED <<rworkers, rdown, rlimit, rsuite, rnext, rrunning, rqueue, rall,
                   gateVars, evalVars, fetchVars, aggVars, unitVars>>

(***************************************************************************)
(* The reporters over a result list: each run of a reporter folds the list *)
(* into the per-model aggregate and ranks the models.                      *)
(***************************************************************************)
MaxResults == 3
MaxRuns == 2

(* merged metrics of a pair, with the provider's reply and the elapsed     *)
(* time: a passing Java fix, a failing Python fix with slow and costly     *)
(* generation, a fix whose code has no branch at all                       *)
AggInputs ==
    {[metrics |-> <<Entry("compiles", "True"),
                    Entry("functional_correctness", "True"),
                    Entry("introduces_violations", "False"),
                    Entry("new_violation_count", 0),
                    Entry("cyclomatic_complexity", Some(3)),
                    Entry("security_issues", 0),
                    Entry("high_severity_security", 0),
                    Entry("has_explanation", "True"),
                    Entry("comment_density", Ratio(1, 4)),
                    Entry("explanation_quality_score", 7)>>,
      reply |-> <<Entry("response", "text"), Entry("tokens_used", 10),
                  Entry("cost", 1)>>,
      elapsed |-> ElapsedMs],
     [metrics |-> <<Entry("compiles", "False"),
                    Entry("compilation_error", Text(ShortLen)),
                    Entry("functional_correctness", "False"),
                    Entry("introduces_violations", "True"),
                    Entry("new_violation_count", 2),
                    Entry("pylint_score", Some(7)),
                    Entry("cyclomatic_complexity", Null),
                    Entry("maintainability_index", Some(60)),
                    Entry("security_issues", 2),
                    Entry("high_severity_security", 1),
                    Entry("has_explanation", "False"),
                    Entry("comment_density", Ratio(1, 1))>>,
      reply |-> <<Entry("response", "text"), Entry("tokens_used", 10),
                  Entry("cost", 200)>>,
      elapsed |-> 40 * ElapsedMs],
     [metrics |-> <<Entry("compiles", "True"),
                    Entry("functional_correctness", "True"),
                    Entry("introduces_violations", "False"),
                    Entry("new_violation_count", 0),
                    Entry("cyclomatic_complexity", Some(0))>>,
      reply |-> <<Entry("response", "text")>>,
      elapsed |-> ElapsedMs]}

(* the results _evaluate_single can give for a model *)
AggResults ==
    UNION {{BuildErrorResult(model, PairRule, PairTest, ProviderErrorText)}
           \cup {FinishResult(model, PairRule, PairTest, in.metrics,
                              GenerateWithTiming(FALSE, in.reply, in.elapsed)) :
                    in \in AggInputs} :
           model \in Range(RunModels)}

(* the reporters read a model's name only to compare it with other names, *)
(* so the lists name the models in the order of RunModels: a model         *)
(* appears only after the models before it                                 *)
ModelPlace(name) == CHOOSE i \in 1..Len(RunModels) : RunModels[i] = name

InModelOrder(list) ==
    \A i \in 1..Len(list) : \A m \in 1..(ModelPlace(list[i].model_name) - 1) :
        \E j \in 1..(i - 1) : ModelPlace(list[j].model_name) = m

AggLists ==
    {list \in UNION {[1..n -> AggResults] : n \in 1..MaxResults} :
        InModelOrder(list)}

(* the results of a model over ten pairs: every fix compiles, eight pass   *)
(* and two fail the functional check, each generation takes 500 ms, the    *)
(* first costs one cent and the others nothing, no quality tool ran        *)
ScenarioC ==
    [i \in 1..10 |->
        FinishResult(RunModels[1], PairRule, PairTest,
                     <<Entry("compiles", "True"),
                       Entry("functional_correctness",
                             IF i <= 8 THEN "True" ELSE "False"),
                       Entry("introduces_violations", "False"),
                       Entry("new_violation_count", 0)>>,
                     GenerateWithTiming(FALSE,
                         IF i = 1
                         THEN <<Entry("response", "text"), Entry("cost", 1)>>
                         ELSE <<Entry("response", "text"), Entry("cost", 0)>>,
                         ElapsedMs))]

(* a reporter that folds into the aggregate of its previous run *)
KeepStats(previous) == previous

(* "model_stats = {}": each run starts from an empty aggregate *)
FreshStats(previous) == <<>>

(* the aggregate of the last run of a reporter, empty before the first *)
LastStats(runs) == IF runs = <<>> THEN <<>> ELSE runs[Len(runs)].stats

AggStart ==
    /\ alist \in AggLists \cup {ScenarioC}
    /\ ahtml = <<>>
    /\ agraf = <<>>

(* no report *)
AggIdle ==
    /\ alist = <<>>
    /\ ahtml = <<>>
    /\ agraf = <<>>

(* HTMLReporter: _aggregate_by_model, then _rank_models *)
AHtmlReport ==
    /\ alist # <<>>
    /\ Len(ahtml) < MaxRuns
    /\ LET stats == AggregateFrom(FreshStats(LastStats(ahtml)), alist)
       IN  ahtml' = Append(ahtml, [stats |-> stats, rank |-> RankModels(stats)])
    /\ UNCHANGED <<alist, agraf, gateVars, evalVars, runVars, fetchVars, unitVars>>

(* HTMLReporterGrafana: _aggregate_by_model, then _rank_models *)
AGrafanaReport ==
    /\ alist # <<>>
    /\ Len(agraf) < MaxRuns
    /\ LET stats == GrafanaAggregateFrom(FreshStats(LastStats(agraf)), alist)
       IN  agraf' = Append(agraf, [stats |-> stats,
                                   rank |-> GrafanaRankModels(stats)])
    /\ UNCHANGED <<alist, ahtml, gateVars, evalVars, runVars, fetchVars, unitVars>>

AggNext ==
    \/ AHtmlReport
    \/ AGrafanaReport

(***************************************************************************)
(* The rule fetcher under the worker threads of one batch: each worker     *)
(* runs get_rule_fetcher() and fetch_rule() of _build_prompt for the same  *)
(* rule.  A step is one read or write of shared state.                     *)
(***************************************************************************)
FetchWorkers == Range(RunModels)

(* the instances that can come to exist: one per worker at most *)
Instances == 1..Len(RunModels)

FetchStart ==
    /\ fglobal = 0
    /\ fcreated = 0
    /\ fcache = [i \in Instances |-> FALSE]
    /\ fpc = [w \in FetchWorkers |-> "get"]
    /\ finst = [w \in FetchWorkers |-> 0]
    /\ fgot = [w \in FetchWorkers |-> "pending"]
    /\ fwhy = [w \in FetchWorkers |-> "pending"]

(* no batch under way *)
FetchIdle ==
    /\ fglobal = 0
    /\ fcreated = 0
    /\ fcache = [i \in Instances |-> FALSE]
    /\ fpc = [w \in FetchWorkers |-> "idle"]
    /\ finst = [w \in FetchWorkers |-> 0]
    /\ fgot = [w \in FetchWorkers |-> "pending"]
    /\ fwhy = [w \in FetchWorkers |-> "pending"]

(* get_rule_fetcher: "if _fetcher is None" *)
FTestGlobal(w) ==
    /\ fpc[w] = "get"
    /\ fpc' = [fpc EXCEPT ![w] = IF fglobal = 0 THEN "create" ELSE "return"]
    /\ UNCHANGED <<fglobal, fcreated, fcache, finst, fgot, fwhy,
                   gateVars, evalVars, runVars, aggVars, unitVars>>

(* get_rule_fetcher: "_fetcher = KonveyorRuleFetcher()" *)
FCreate(w) ==
    /\ fpc[w] = "create"
    /\ fcreated' = fcreated + 1
    /\ fglobal' = fcreated'
    /\ fpc' = [fpc EXCEPT ![w] = "return"]
    /\ UNCHANGED <<fcache, finst, fgot, fwhy, gateVars, evalVars, runVars, aggVars, unitVars>>

(* get_rule_fetcher: "return _fetcher" *)
FReturn(w) ==
    /\ fpc[w] = "return"
    /\ finst' = [finst EXCEPT ![w] = fglobal]
    /\ fpc' = [fpc EXCEPT ![w] = "lookup"]
    /\ UNCHANGED <<fglobal, fcreated, fcache, fgot, fwhy, gateVars, evalVars, runVars, aggVars, unitVars>>

(* fetch_rule: "if cache_key in self._cache: return self._cache[cache_key]" *)
FLookup(w) ==
    /\ fpc[w] = "lookup"
    /\ IF fcache[finst[w]]
       THEN /\ fgot' = [fgot EXCEPT ![w] = "cached"]
            /\ fpc' = [fpc EXCEPT ![w] = "done"]
       ELSE /\ fgot' = fgot
            /\ fpc' = [fpc EXCEPT ![w] = "request"]
    /\ UNCHANGED <<fglobal, fcreated, fcache, finst, fwhy,
                   gateVars, evalVars, runVars, aggVars, unitVars>>

(* fetch_rule: the conversion of the URL, the request, the parse and       *)
(* _find_rule_by_id                                                        *)
FRequest(w) ==
    /\ fpc[w] = "request"
    /\ \E answer \in FetchAnswers :
          /\ fwhy' = [fwhy EXCEPT ![w] = answer]
          /\ IF FetchRule(answer) = "rule"
             THEN /\ fpc' = [fpc EXCEPT ![w] = "store"]
                  /\ fgot' = fgot
             ELSE /\ fpc' = [fpc EXCEPT ![w] = "done"]
                  /\ fgot' = [fgot EXCEPT ![w] = FetchRule(answer)]
    /\ UNCHANGED <<fglobal, fcreated, fcache, finst, gateVars, evalVars, runVars, aggVars, unitVars>>

(* fetch_rule: "self._cache[cache_key] = rule_data" *)
FStore(w) ==
    /\ fpc[w] = "store"
    /\ fcache' = [fcache EXCEPT ![finst[w]] = TRUE]
    /\ fgot' = [fgot EXCEPT ![w] = "rule"]
    /\ fpc' = [fpc EXCEPT ![w] = "done"]
    /\ UNCHANGED <<fglobal, fcreated, finst, fwhy,
                   gateVars, evalVars, runVars, aggVars, unitVars>>

FetchNext ==
    \E w \in FetchWorkers :
        \/ FTestGlobal(w)
        \/ FCreate(w)
        \/ FReturn(w)
        \/ FLookup(w)
        \/ FRequest(w)
        \/ FStore(w)

RunNext ==
    \/ RNextTestCase
    \/ RSequential
    \/ RComplete
    \/ RBatchEnd

(***************************************************************************)
(* _compile_java and _strip_failing_imports, step by step                  *)
(* (FunctionalCorrectnessEvaluator).  A source file is a sequence of      *)
(* lines; a dotted name is the sequence of its segments.                   *)
(***************************************************************************)
MaxLines == 3

(* the packages javac can report as 'package X does not exist' *)
Packages == {<<"org">>, <<"org", "lib">>, <<"com">>}

(* import P.C;  /  import static P.C.m;  /  public class X {  /  other text *)
Lines ==
    [kind : {"import"}, name : {p \o <<"C">> : p \in Packages}]
      \cup [kind : {"static"}, name : {<<"org", "lib", "C", "m">>}]
      \cup [kind : {"class", "other"}, name : {<<>>}]

Sources == UNION {[1..n -> Lines] : n \in 1..MaxLines}

(* stripped.startswith('import ') *)
IsImportLine(line) == line.kind \in {"import", "static"}

IsPrefix(p, q) == Len(p) <= Len(q) /\ SubSeq(q, 1, Len(p)) = p

(* f'import {pkg}.' in stripped or f'import {pkg};' in stripped: the text *)
(* after 'import ' starts with the segments of pkg, followed by '.' or    *)
(* ';'; after 'import ' a static import reads 'static'                     *)
ImportsFrom(line, pkg) ==
    /\ line.kind = "import"
    /\ IsPrefix(pkg, line.name)

(* what javac wrote when it failed: the packages of its 'package X does   *)
(* not exist' messages, and whether the words 'package' and 'does not     *)
(* exist' occur anywhere in it; run: the run that wrote it                *)
ErrorOutputs(run) ==
    {e \in [pkgs : SUBSET Packages, package : BOOLEAN, dne : BOOLEAN, run : {run}] :
        e.pkgs # {} => e.package /\ e.dne}

(* re.findall(r'package ([\w.]+) does not exist', error_output) *)
FailingPackages(error_output) == error_output.pkgs

IsFailing(line, failing_packages) ==
    \E pkg \in failing_packages : ImportsFrom(line, pkg)

RECURSIVE CleanedLines(_, _)
CleanedLines(lines, failing_packages) ==
    IF lines = <<>> THEN <<>>
    ELSE LET line == Head(lines)
             rest == CleanedLines(Tail(lines), failing_packages)
         IN IF IsImportLine(line) /\ IsFailing(line, failing_packages)
            THEN rest
            ELSE <<line>> \o rest

StripFailingImports(code, error_output) ==
    IF FailingPackages(error_output) = {} THEN code
    ELSE CleanedLines(code, FailingPackages(error_output))

(* re.search(r'public\s+class\s+(\w+)', code) found a name *)
ExtractJavaClassName(code) == \E i \in 1..Len(code) : code[i].kind = "class"

(* the first run failed: is the file rewritten and compiled again *)
RetryAnyway(code, error_output) == TRUE

RetryWanted(code, error_output) ==
    /\ error_output.package /\ error_output.dne
    /\ StripFailingImports(code, error_output) # code

(* the pair _compile_java returns: the flag, the error text, and when the  *)
(* text is a compiler's output, that output                                *)
CompileAnswer(compiles, text, output) ==
    [compiles |-> compiles, text |-> text, output |-> output]

CompileStart ==
    /\ cjavac \in BOOLEAN
    /\ ccode \in Sources
    /\ cpc = "start"
    /\ cruns = <<>>
    /\ cerr = <<>>
    /\ ccleaned = <<>>
    /\ cresult = <<>>

CompileIdle ==
    /\ cjavac = FALSE
    /\ ccode = <<>>
    /\ cpc = "idle"
    /\ cruns = <<>>
    /\ cerr = <<>>
    /\ ccleaned = <<>>
    /\ cresult = <<>>

(* one subprocess.run(javac_cmd, timeout=30) on the file as it is now; a  *)
(* run is recorded with the file it compiled, how it ended and its output  *)
JavacRun(n, back) ==
    \E how \in JavacRuns(cjavac) :
       CASE how = "ok" ->
              /\ cruns' = Append(cruns, [code |-> ccode, how |-> how, out |-> <<>>])
              /\ cresult' = <<CompileAnswer("True", "", <<>>)>>
              /\ cpc' = "done"
              /\ cerr' = cerr
         [] how = "timeout" ->
              /\ cruns' = Append(cruns, [code |-> ccode, how |-> how, out |-> <<>>])
              /\ cresult' = <<CompileAnswer("False", "Compilation timeout (>30s)", <<>>)>>
              /\ cpc' = "done"
              /\ cerr' = cerr
         [] how = "notfound" ->
              /\ cruns' = Append(cruns, [code |-> ccode, how |-> how, out |-> <<>>])
              /\ cresult' = <<CompileAnswer("None", "javac not available", <<>>)>>
              /\ cpc' = "done"
              /\ cerr' = cerr
         [] OTHER ->
              \E e \in ErrorOutputs(n) :
                 /\ cruns' = Append(cruns, [code |-> ccode, how |-> how, out |-> <<e>>])
                 /\ cerr' = <<e>>
                 /\ IF back
                    THEN cresult' = <<CompileAnswer("False", "error_output", <<e>>)>>
                         /\ cpc' = "done"
                    ELSE cresult' = cresult /\ cpc' = "failed"

(* class name extraction and the first compiler run *)
CJFirstRun ==
    /\ cpc = "start"
    /\ IF ~ExtractJavaClassName(ccode)
       THEN /\ cresult' = <<CompileAnswer("False", "Could not extract class name from code", <<>>)>>
            /\ cpc' = "done"
            /\ UNCHANGED <<cruns, cerr>>
       ELSE JavacRun(1, FALSE)
    /\ UNCHANGED <<cjavac, ccode, ccleaned, benchVars, initVars, writerVars, engineVars>>

(* the first run failed: strip the failing imports, or give up *)
CJStrip ==
    /\ cpc = "failed"
    /\ LET error_output == cerr[1]
       IN IF error_output.package /\ error_output.dne
          THEN /\ ccleaned' = <<StripFailingImports(ccode, error_output)>>
               /\ IF RetryWanted(ccode, error_output)
                  THEN /\ ccode' = StripFailingImports(ccode, error_output)
                       /\ cpc' = "retry"
                       /\ cresult' = cresult
                  ELSE /\ cresult' = <<CompileAnswer("False", "error_output", <<error_output>>)>>
                       /\ cpc' = "done"
                       /\ ccode' = ccode
          ELSE /\ cresult' = <<CompileAnswer("False", "error_output", <<error_output>>)>>
               /\ cpc' = "done"
               /\ UNCHANGED <<ccode, ccleaned>>
    /\ UNCHANGED <<cjavac, cruns, cerr, benchVars, initVars, writerVars, engineVars>>

(* the second compiler run, on the rewritten file *)
CJSecondRun ==
    /\ cpc = "retry"
    /\ JavacRun(2, TRUE)
    /\ UNCHANGED <<cjavac, ccode, ccleaned, benchVars, initVars, writerVars, engineVars>>

CompileNext ==
    \/ CJFirstRun
    \/ CJStrip
    \/ CJSecondRun

(***************************************************************************)
(* _run_python_benchmark (EfficiencyEvaluator): the child process, the     *)
(* memory polling loop and the wait with its timeout.                      *)
(***************************************************************************)
MaxRss == 4

DefaultTimeoutSeconds == 30

(* self.config.get("timeout_seconds", 30) *)
TimeoutSeconds(config) ==
    IF config = Null THEN DefaultTimeoutSeconds ELSE config[1]

Max(a, b) == IF a > b THEN a ELSE b

BenchStart ==
    /\ bwill \in BOOLEAN
    /\ bdenied \in BOOLEAN
    /\ bconfig \in {Null, Some(5)}
    /\ bchild = "running"
    /\ bpc = "poll"
    /\ bmax = 0
    /\ bend = "none"

BenchIdle ==
    /\ bwill = FALSE
    /\ bdenied = FALSE
    /\ bconfig = Null
    /\ bchild = "none"
    /\ bpc = "idle"
    /\ bmax = 0
    /\ bend = "none"

(* the child finishes its work; a child that hangs never takes this step *)
BChildExit ==
    /\ bpc \in {"poll", "sample", "sleep", "wait"}
    /\ bchild = "running"
    /\ bwill
    /\ bchild' = "exited"
    /\ UNCHANGED <<bwill, bdenied, bconfig, bpc, bmax, bend, compileVars, initVars, writerVars, engineVars>>

(* while process.poll() is None *)
BPoll ==
    /\ bpc = "poll"
    /\ bpc' = IF bchild = "running" THEN "sample" ELSE "wait"
    /\ UNCHANGED <<bwill, bdenied, bconfig, bchild, bmax, bend, compileVars, initVars, writerVars, engineVars>>

(* memory_info(): NoSuchProcess when the child is gone, AccessDenied when  *)
(* the platform refuses, else a resident set size                          *)
BSample ==
    /\ bpc = "sample"
    /\ IF bchild # "running" \/ bdenied
       THEN bpc' = "wait" /\ bmax' = bmax
       ELSE \E rss \in 1..MaxRss :
               /\ bmax' = Max(bmax, rss)
               /\ bpc' = "sleep"
    /\ UNCHANGED <<bwill, bdenied, bconfig, bchild, bend, compileVars, initVars, writerVars, engineVars>>

(* time.sleep(0.01) *)
BSleep ==
    /\ bpc = "sleep"
    /\ bpc' = "poll"
    /\ UNCHANGED <<bwill, bdenied, bconfig, bchild, bmax, bend, compileVars, initVars, writerVars, engineVars>>

(* process.wait(timeout=...): returns when the child has exited; when the  *)
(* child is still running after TimeoutSeconds the wait raises, and where  *)
(* the handler matches the exception the child is killed first             *)
BWait ==
    /\ bpc = "wait"
    /\ TimeoutSeconds(bconfig) > 0
    /\ bpc' = "done"
    /\ IF bchild = "exited"
       THEN bend' = "returned" /\ bchild' = bchild
       ELSE /\ bend' = "raised"
            /\ \E caught \in BOOLEAN :
                  bchild' = IF caught THEN "killed" ELSE bchild
    /\ UNCHANGED <<bwill, bdenied, bconfig, bmax, compileVars, initVars, writerVars, engineVars>>

BenchNext ==
    \/ BChildExit
    \/ BPoll
    \/ BSample
    \/ BSleep
    \/ BWait

(***************************************************************************)
(* _initialize_evaluators and the evaluators' enabled flags                *)
(* (EvaluationEngine, BaseEvaluator).                                      *)
(***************************************************************************)
(* a section of evaluation_dimensions: absent, present without an enabled *)
(* flag, or present with the flag                                         *)
Sections == {"absent", "no_flag", "true", "false"}

(* section.get("enabled", default), with {} for an absent section *)
EnabledFlag(section, default) ==
    CASE section = "true" -> TRUE
      [] section = "false" -> FALSE
      [] OTHER -> default

(* the default of the engine's test: False for efficiency, True otherwise *)
EngineDefault(name) == name # "efficiency"

(* BaseEvaluator.__init__: self.enabled = config.get("enabled", True) *)
BaseEnabled(section) == EnabledFlag(section, TRUE)

InitStart ==
    /\ iconfig \in [EvaluatorNames -> Sections]
    /\ ipc = "init"
    /\ iidx = 1
    /\ ievaluators = [name \in EvaluatorNames |-> "none"]
    /\ iinvoked = {}

InitIdle ==
    /\ iconfig = [name \in EvaluatorNames |-> "absent"]
    /\ ipc = "idle"
    /\ iidx = 1
    /\ ievaluators = [name \in EvaluatorNames |-> "none"]
    /\ iinvoked = {}

(* one 'if eval_config.get(key, {}).get("enabled", default):' block: the  *)
(* constructor is handed eval_config[key], a KeyError for an absent key   *)
IConstruct ==
    /\ ipc = "init"
    /\ iidx <= Len(EvaluatorOrder)
    /\ LET name == EvaluatorOrder[iidx]
           section == iconfig[name]
       IN IF ~EnabledFlag(section, EngineDefault(name))
          THEN /\ iidx' = iidx + 1
               /\ UNCHANGED <<ipc, ievaluators>>
          ELSE IF section = "absent"
          THEN /\ ipc' = "raised"
               /\ UNCHANGED <<iidx, ievaluators>>
          ELSE /\ ievaluators' = [ievaluators EXCEPT ![name] =
                                    IF BaseEnabled(section) THEN "enabled" ELSE "disabled"]
               /\ iidx' = iidx + 1
               /\ ipc' = ipc
    /\ UNCHANGED <<iconfig, iinvoked, compileVars, benchVars, writerVars, engineVars>>

(* return evaluators *)
IBuilt ==
    /\ ipc = "init"
    /\ iidx > Len(EvaluatorOrder)
    /\ ipc' = "built"
    /\ UNCHANGED <<iconfig, iidx, ievaluators, iinvoked, compileVars, benchVars, writerVars, engineVars>>

(* _run_evaluators: evaluate() of every evaluator with is_enabled() *)
IRunEvaluators ==
    /\ ipc = "built"
    /\ iinvoked' = {name \in EvaluatorNames : ievaluators[name] = "enabled"}
    /\ ipc' = "ran"
    /\ UNCHANGED <<iconfig, iidx, ievaluators, compileVars, benchVars, writerVars, engineVars>>

InitNext ==
    \/ IConstruct
    \/ IBuilt
    \/ IRunEvaluators

(***************************************************************************)
(* DatabaseWriter: start_run, complete_run, close and the context manager, *)
(* over the runs kept by the storage backend.                              *)
(***************************************************************************)
MaxStarted == 2
MaxCalls == 3

(* run 1 may be in the storage before the writer is made; uuid4() gives   *)
(* the ids after it                                                       *)
RunIds == 1..(1 + MaxStarted)

NoRun == [status |-> "none", completed_at |-> Null]

StoredRuns ==
    {NoRun,
     [status |-> "running", completed_at |-> Null],
     [status |-> "completed", completed_at |-> Some(0)],
     [status |-> "failed", completed_at |-> Some(0)]}

(* SQLiteBackend.create_run: a new row with the status handed over *)
CreateRun(store, run_id, status) ==
    [store EXCEPT ![run_id] = [status |-> status, completed_at |-> Null]]

(* SQLiteBackend.update_run: setattr on the row of run_id, if there is one *)
UpdateRun(store, run_id, completed_at, status) ==
    IF store[run_id].status = "none" THEN store
    ELSE [store EXCEPT ![run_id] = [status |-> status, completed_at |-> Some(completed_at)]]

(* DatabaseWriter.complete_run *)
CompleteRun(store, run_id, status, now) == UpdateRun(store, run_id, now, status)

(* __exit__ with every outcome recorded as completed *)
ExitStatusCompleted(exception) == "completed"

(* status = 'failed' if exc_type else 'completed' *)
ExitStatus(exception) == IF exception THEN "failed" ELSE "completed"

WriterStart ==
    /\ wbackend \in {"file", "sqlite"}
    /\ wstore \in [RunIds -> StoredRuns]
    /\ \A id \in RunIds : id # 1 \/ wbackend = "file" => wstore[id] = NoRun
    /\ wcurrent = 0
    /\ wnext = 2
    /\ wclock = 0
    /\ wopen = TRUE
    /\ wpc = "new"
    /\ wexit = "none"

WriterIdle ==
    /\ wbackend = "file"
    /\ wstore = [id \in RunIds |-> NoRun]
    /\ wcurrent = 0
    /\ wnext = 2
    /\ wclock = 0
    /\ wopen = TRUE
    /\ wpc = "idle"
    /\ wexit = "none"

(* __enter__ *)
WEnter ==
    /\ wpc = "new"
    /\ wpc' = "inside"
    /\ UNCHANGED <<wbackend, wstore, wcurrent, wnext, wclock, wopen, wexit,
                   compileVars, benchVars, initVars, engineVars>>

(* start_run: FileBackend.create_run hands started_at, a datetime, to     *)
(* json.dump, which raises TypeError before a readable run.json exists    *)
(* and before current_run_id is set                                       *)
WStartRun ==
    /\ wpc \in {"new", "inside"}
    /\ wclock < MaxCalls
    /\ wnext <= 1 + MaxStarted
    /\ wclock' = wclock + 1
    /\ wnext' = wnext + 1
    /\ IF wbackend = "file"
       THEN UNCHANGED <<wstore, wcurrent>>
       ELSE /\ wstore' = CreateRun(wstore, wnext, "running")
            /\ wcurrent' = wnext
    /\ UNCHANGED <<wbackend, wopen, wpc, wexit,
                   compileVars, benchVars, initVars, engineVars>>

(* complete_run(run_id, status) called by the user of the writer *)
WCompleteRun ==
    /\ wpc \in {"new", "inside"}
    /\ wclock < MaxCalls
    /\ wclock' = wclock + 1
    /\ \E run_id \in RunIds, status \in {"completed", "failed"} :
          wstore' = CompleteRun(wstore, run_id, status, wclock + 1)
    /\ UNCHANGED <<wbackend, wcurrent, wnext, wopen, wpc, wexit,
                   compileVars, benchVars, initVars, engineVars>>

(* close() called by the user of a writer that is no context manager *)
WClose ==
    /\ wpc = "new"
    /\ wopen' = FALSE
    /\ wpc' = "closed"
    /\ UNCHANGED <<wbackend, wstore, wcurrent, wnext, wclock, wexit,
                   compileVars, benchVars, initVars, engineVars>>

(* __exit__: complete the current run, then close *)
WExit ==
    /\ wpc = "inside"
    /\ \E exception \in BOOLEAN :
          /\ wexit' = IF exception THEN "exception" ELSE "clean"
          /\ wstore' = IF wcurrent # 0
                       THEN CompleteRun(wstore, wcurrent, ExitStatus(exception), wclock + 1)
                       ELSE wstore
    /\ wclock' = wclock + 1
    /\ wopen' = FALSE
    /\ wpc' = "left"
    /\ UNCHANGED <<wbackend, wcurrent, wnext,
                   compileVars, benchVars, initVars, engineVars>>

WriterNext ==
    \/ WEnter
    \/ WStartRun
    \/ WCompleteRun
    \/ WClose
    \/ WExit

UnitIdle == CompileIdle /\ BenchIdle /\ InitIdle /\ WriterIdle

(***************************************************************************)
(* The specifications: each starts one part of the program and leaves the  *)
(* others idle.                                                            *)
(***************************************************************************)
EngineIdle == GateIdle /\ EvalIdle /\ RunIdle /\ FetchIdle /\ AggIdle

GateInit ==
    GateStart /\ EvalIdle /\ RunIdle /\ FetchIdle /\ AggIdle /\ UnitIdle

SpecGate == GateInit /\ [][GateNext]_vars

EvalInit ==
    EvalStart /\ GateIdle /\ RunIdle /\ FetchIdle /\ AggIdle /\ UnitIdle

SpecEval == EvalInit /\ [][EvalNext]_vars

RunInit ==
    RunStart /\ GateIdle /\ EvalIdle /\ FetchIdle /\ AggIdle /\ UnitIdle

SpecRun == RunInit /\ [][RunNext]_vars

FetchInit ==
    FetchStart /\ GateIdle /\ EvalIdle /\ RunIdle /\ AggIdle /\ UnitIdle

SpecFetch == FetchInit /\ [][FetchNext]_vars

CompileInit ==
    CompileStart /\ EngineIdle /\ BenchIdle /\ InitIdle /\ WriterIdle

BenchInit ==
    BenchStart /\ EngineIdle /\ CompileIdle /\ InitIdle /\ WriterIdle

WriterInit ==
    WriterStart /\ EngineIdle /\ CompileIdle /\ BenchIdle /\ InitIdle

SpecWriter == WriterInit /\ [][WriterNext]_vars

InitInit ==
    InitStart /\ EngineIdle /\ CompileIdle /\ BenchIdle /\ WriterIdle

SpecInit == InitInit /\ [][InitNext]_vars

SpecBench == BenchInit /\ [][BenchNext]_vars

(* the interpreter keeps executing the call, the sleeps return, and a      *)
(* child that exits on its own does so                                     *)
BenchFairness ==
    /\ WF_vars(BPoll)
    /\ WF_vars(BSample)
    /\ WF_vars(BSleep)
    /\ WF_vars(BWait)
    /\ WF_vars(BChildExit)

SpecBenchFair == SpecBench /\ BenchFairness

SpecCompile == CompileInit /\ [][CompileNext]_vars

AggInit ==
    AggStart /\ GateIdle /\ EvalIdle /\ RunIdle /\ FetchIdle /\ UnitIdle

SpecAgg == AggInit /\ [][AggNext]_vars

(***************************************************************************)
(* Claims about the gate (SpecGate).                                       *)
(***************************************************************************)

(* the four fail conditions, as the specification words them *)
Fail1(m) == ~Has(m, "functional_correctness")
            \/ Get(m, "functional_correctness", "False") = "False"
Fail2(m) == Has(m, "introduces_violations")
            /\ Get(m, "introduces_violations", "False") = "True"
Fail3(m) == Has(m, "compiles") /\ Get(m, "compiles", "True") # "True"
Fail4(m) == Has(m, "high_severity_security")
            /\ Get(m, "high_severity_security", 0) > 0

(* C1: the gate passes a metrics map if and only if none of the four fail  *)
(* conditions holds (functional_correctness present and true,              *)
(* introduces_violations false or absent, compiles absent or true,         *)
(* high_severity_security absent or 0).                                    *)
C1_PassIffNoFailCondition ==
    gres # <<>> =>
        (gres[1].passed <=>
            ~(Fail1(gm) \/ Fail2(gm) \/ Fail3(gm) \/ Fail4(gm)))

(* the reason the specification gives for the first failing condition *)
IsReasonOfFirstFailure(m, r) ==
    IF Fail1(m) THEN r.msg = "Does not resolve violation"
    ELSE IF Fail2(m)
    THEN /\ r.msg = "Introduces new violations"
         /\ Has(m, "new_violation_count")
                => r.n = Get(m, "new_violation_count", 0)
    ELSE IF Fail3(m)
    THEN r.msg \in {"Compilation error", "Compilation error: "}
    ELSE IF Fail4(m)
    THEN /\ r.msg = "High severity security issues"
         /\ r.n = Get(m, "high_severity_security", 0)
    ELSE FALSE

(* C2: for every metrics map that fails the gate, the failure reason is    *)
(* the reason of the lowest-numbered failing condition, in the order       *)
(* functional_correctness, introduces_violations, compiles, security.      *)
C2_ReasonIsFirstFailingCondition ==
    (gres # <<>> /\ ~gres[1].passed) =>
        IsReasonOfFirstFailure(gm, gres[1].failure_reason)

(* restriction of a map to what the gate may read, as a function of key *)
GateView(m) == [k \in GateKeys |-> IF Has(m, k) THEN <<Get(m, k, 0)>> ELSE <<>>]

(* C3: two metrics maps that agree on the gate-relevant keys get the same  *)
(* pass/fail boolean and the same failure reason, whatever other keys are  *)
(* present, absent or changed and in whatever order keys were inserted.    *)
C3_DecisionDependsOnGateKeysOnly ==
    (gres # <<>> /\ gres2 # <<>> /\ GateView(gm) = GateView(gm2)) =>
        gres = gres2

(* C3's case: a failing map with an unrelated non-zero key added and its   *)
(* keys in another order, both decided.                                    *)
C3_Witness ==
    /\ gres # <<>> /\ gres2 # <<>>
    /\ GateView(gm) = GateView(gm2)
    /\ Get(gm2, "security_issues", 0) > 0 /\ ~Has(gm, "security_issues")
    /\ Len(gm) >= 2 /\ gm2[1] = gm[2] /\ gm2[2] = gm[1]
    /\ gres[1].passed
    /\ gres2[1].passed

(***************************************************************************)
(* Claims about one (test case, model) pair (SpecEval).                    *)
(***************************************************************************)

(* what the functional evaluator returned for the pair *)
FunctionalOut == eout["functional"].out
FunctionalReturned == eout["functional"].st = "returned"

(* C4, as stated: whenever the compiler binary is unavailable, the compile *)
(* check reports compiles as the null value.                               *)
C4_MissingCompilerAlwaysUnknown ==
    (elang = "java" /\ ~ejavac /\ FunctionalReturned
        /\ Has(FunctionalOut, "compiles"))
        => Get(FunctionalOut, "compiles", "True") = "None"

(* C4, amended: when the compile check gets as far as starting the         *)
(* compiler and the binary cannot be started, compiles is the null value;  *)
(* every result whose compiles is null has passed = false and does not     *)
(* count as compiled.                                                      *)
C4_MissingCompilerIsUnknown ==
    /\ ejrun = "notfound"
          => Get(FunctionalOut, "compiles", "True") = "None"
    /\ (eresult # <<>> /\ Get(eresult[1].metrics, "compiles", "True") = "None")
          => (~eresult[1].passed /\ ~CountsAsCompiled(eresult[1]))

(* C4's case: the compiler could not be started, everything else about the *)
(* fix is fine, and the pair's result is there.                            *)
C4_Witness ==
    /\ ejrun = "notfound"
    /\ eresult # <<>>
    /\ Get(eresult[1].metrics, "compiles", "True") = "None"
    /\ Get(eresult[1].metrics, "functional_correctness", "False") = "True"
    /\ Get(eresult[1].metrics, "introduces_violations", "True") = "False"
    /\ Get(eresult[1].metrics, "high_severity_security", 0) = 0
    /\ ~eresult[1].passed

(* C5: for a language other than java and python the functional evaluator  *)
(* reports compiles as unknown (null or absent), neither true nor false.   *)
C5_NoCompileCheckMeansUnknown ==
    (elang \notin {"java", "python"} /\ FunctionalReturned)
        => Get(FunctionalOut, "compiles", "None") = "None"

(* the keys each evaluator can put into its map *)
EmitKeys(name) ==
    CASE name = "functional" ->
            {"compiles", "compilation_error", "functional_correctness",
             "introduces_violations", "new_violation_count", "matches_expected"}
      [] name = "quality" ->
            {"pylint_score", "cyclomatic_complexity", "maintainability_index",
             "style_violations"}
      [] name = "security" ->
            {"security_issues", "high_severity_security", "issue_types", "issues"}
      [] name = "efficiency" -> {"execution_time_ms", "memory_usage_mb"}
      [] OTHER ->
            {"has_explanation", "has_inline_comments", "comment_density",
             "explanation_quality_score"}

RaisedSet == {n \in EvaluatorNames : eout[n].st = "raised"}
ReturnedSet == {n \in EvaluatorNames : eout[n].st = "returned"}
LoopDone == epc \in {"evaluators", "returned"} /\ eidx > Len(EvaluatorOrder)

(* every entry of every returned map is in the accumulator, unchanged *)
OutputsKept ==
    \A n \in ReturnedSet : \A i \in 1..Len(eout[n].out) :
        /\ Has(emetrics, eout[n].out[i].k)
        /\ Get(emetrics, eout[n].out[i].k, <<>>) = eout[n].out[i].v

(* every key of the accumulator comes from a returned map *)
NothingElse ==
    \A j \in 1..Len(emetrics) :
        \E n \in ReturnedSet : Has(eout[n].out, emetrics[j].k)

(* C6: when enabled evaluators raise during _run_evaluators the call goes  *)
(* on to its end, every other enabled evaluator is invoked, the returned   *)
(* map is exactly the union of the other evaluators' maps and has no key   *)
(* of an evaluator that raised.                                            *)
C6_RaisingEvaluatorIsIsolated ==
    RaisedSet # {} =>
        /\ epc \in {"evaluators", "returned"}
        /\ RaisedSet \subseteq eenabled
        /\ LoopDone =>
              /\ eenabled \ RaisedSet = ReturnedSet
              /\ OutputsKept
              /\ NothingElse
              /\ \A n \in RaisedSet : Keys(emetrics) \cap EmitKeys(n) = {}

(* C6's case: the second evaluator raised, the ones before and after it    *)
(* returned maps with entries, and the pair got its result from them.      *)
C6_Witness ==
    /\ LoopDone
    /\ RaisedSet = {"quality"}
    /\ ReturnedSet = {"functional", "security", "explainability"}
    /\ \A n \in ReturnedSet : eout[n].out # <<>>
    /\ eresult # <<>>
    /\ Has(eresult[1].metrics, "security_issues")

RECURSIVE SumLen(_)
SumLen(names) ==
    IF names = {} THEN 0
    ELSE LET n == CHOOSE x \in names : TRUE
         IN  Len(eout[n].out) + SumLen(names \ {n})

(* C7: at every point of the merge no evaluator's map has overwritten a    *)
(* key of an earlier one: the maps of any two evaluators share no key, and *)
(* the accumulator holds each entry of each map, as many as the maps have  *)
(* together.                                                               *)
C7_NoKeyIsOverwritten ==
    /\ \A n1, n2 \in ReturnedSet :
          n1 # n2 => Keys(eout[n1].out) \cap Keys(eout[n2].out) = {}
    /\ \A n \in ReturnedSet : Keys(eout[n].out) \subseteq EmitKeys(n)
    /\ epc = "evaluators" => (OutputsKept /\ Len(emetrics) = SumLen(ReturnedSet))

(* C7's case: all five evaluators returned a map with entries and the      *)
(* merge is complete.                                                      *)
C7_Witness ==
    /\ epc = "evaluators"
    /\ eidx > Len(EvaluatorOrder)
    /\ ReturnedSet = EvaluatorNames
    /\ \A n \in EvaluatorNames : Len(eout[n].out) >= 2
    /\ Has(eout["quality"].out, "style_violations")
    /\ Has(eout["security"].out, "issues")

(* C8: no exception raised while a pair is evaluated leaves                *)
(* _evaluate_single.                                                       *)
C8_NoExceptionEscapes == epc # "raised"

(* C9: when the provider's generate call raises, generate_with_timing      *)
(* returns a map with an error entry, and _evaluate_single returns a       *)
(* result with passed = false, metrics exactly {response_time_ms: 0},      *)
(* estimated_cost 0 and a reason starting with "Error: "; no evaluator is  *)
(* run.                                                                    *)
C9_ProviderErrorBecomesErrorResult ==
    eprov = "raised" =>
        /\ Has(egen, "error")
        /\ epc = "returned"
        /\ eresult # <<>>
        /\ ~eresult[1].passed
        /\ eresult[1].metrics = <<Entry("response_time_ms", 0)>>
        /\ eresult[1].estimated_cost = 0
        /\ eresult[1].failure_reason.msg = "Error: "
        /\ \A n \in EvaluatorNames : eout[n] = Pending

(* C9's case: the provider raised and the pair has its result. *)
C9_Witness ==
    /\ eprov = "raised"
    /\ Get(egen, "error", Text(0)) = ProviderErrorText
    /\ eresult # <<>>
    /\ eresult[1].failure_reason.detail = ProviderErrorText

(***************************************************************************)
(* Claims about a run (SpecRun).                                           *)
(***************************************************************************)

ModelRank(name) == CHOOSE i \in 1..Len(RunModels) : RunModels[i] = name

(* whether result a comes before result b in the order of the tasks *)
TaskBefore(a, b) ==
    \/ a.test_case_id[1] < b.test_case_id[1]
    \/ /\ a.test_case_id[1] = b.test_case_id[1]
       /\ a.test_case_id[2] < b.test_case_id[2]
    \/ /\ a.test_case_id = b.test_case_id
       /\ ModelRank(a.model_name) < ModelRank(b.model_name)

RECURSIVE InsertByTask(_, _)
InsertByTask(sorted, x) ==
    IF sorted = <<>> THEN <<x>>
    ELSE IF TaskBefore(x, Head(sorted)) THEN <<x>> \o sorted
    ELSE <<Head(sorted)>> \o InsertByTask(Tail(sorted), x)

RECURSIVE TaskOrdered(_, _)
TaskOrdered(sorted, rest) ==
    IF rest = <<>> THEN sorted
    ELSE TaskOrdered(InsertByTask(sorted, Head(rest)), Tail(rest))

(* C10: the ranking obtained from a run's results, the order of models     *)
(* with equal scores included, is the same for every order in which the    *)
(* workers of a batch complete: it is the ranking of the results taken in  *)
(* the order of the tasks.                                                 *)
C10_RankingIndependentOfCompletion ==
    rpc = "done" =>
        RankModels(AggregateByModel(rall))
            = RankModels(AggregateByModel(TaskOrdered(<<>>, rall)))

(* the models whose result for test case tc is in the result list *)
CollectedFor(results, tc) ==
    {results[i].model_name :
        i \in {j \in 1..Len(results) : results[j].test_case_id = tc}}

(* how many results of the list belong to test case tc *)
CountFor(results, tc) ==
    Cardinality({j \in 1..Len(results) : results[j].test_case_id = tc})

(* C11: in parallel mode at most max_workers evaluations are in flight,    *)
(* all of them of the current test case; between test cases nothing is in  *)
(* flight or queued, and every evaluation of the earlier test cases has    *)
(* finished.                                                               *)
C11_ParallelismWithinOneTestCase ==
    rworkers > 1 =>
        /\ Cardinality(rrunning) <= rworkers
        /\ rpc \in {"loop", "batch_end", "done"}
              => (rrunning = {} /\ rqueue = <<>>)
        /\ rpc = "parallel" =>
              /\ rrunning # {}
              /\ CollectedFor(rall, rpos) \cap (rrunning \cup Range(rqueue)) = {}
              /\ CollectedFor(rall, rpos) \cup rrunning \cup Range(rqueue)
                    = Range(RunModels)
              /\ \A i \in 1..Len(rall) :
                    rall[i].test_case_id # rpos
                        => CountFor(rall, rall[i].test_case_id) = Len(RunModels)

(* C11's case: the second test case of a run with two workers and three    *)
(* models, two evaluations in flight and one waiting.                      *)
C11_Witness ==
    /\ rworkers = 2
    /\ rpc = "parallel"
    /\ rcompleted >= 1
    /\ Cardinality(rrunning) = 2
    /\ Len(rqueue) = 1
    /\ Len(rall) = Len(RunModels)

(***************************************************************************)
(* Claims about the rule fetcher under worker threads (SpecFetch).         *)
(***************************************************************************)

(* the workers between the test of a shared location and their write to it *)
Creating == {w \in FetchWorkers : fpc[w] = "create"}
Storing(i) == {w \in FetchWorkers : fpc[w] = "store" /\ finst[w] = i}

(* C12: no two workers can at once be writing the rule fetcher's cache or  *)
(* creating the global rule-fetcher instance, and the global instance is   *)
(* created once.                                                           *)
C12_WorkersWriteNoSharedState ==
    /\ Cardinality(Creating) <= 1
    /\ fcreated <= 1
    /\ \A i \in Instances : Cardinality(Storing(i)) <= 1

(***************************************************************************)
(* Claims about aggregation and ranking (SpecAgg).                         *)
(***************************************************************************)

(* every run of either reporter *)
AllRuns == Range(ahtml) \cup Range(agraf)

(* the place of a model in an aggregate *)
PlaceIn(stats, name) == CHOOSE i \in 1..Len(stats) : stats[i].k = name

SameScore(a, b) == ~RLess(a.score, b.score) /\ ~RLess(b.score, a.score)

(* C13: the ranking holds each model of the aggregate exactly once, in     *)
(* order of non-increasing composite score, models of equal score in the   *)
(* order of the aggregate.                                                 *)
C13_RankingIsStableDescendingSort ==
    \A run \in AllRuns :
        /\ Len(run.rank) = Len(run.stats)
        /\ {run.rank[i].model_name : i \in 1..Len(run.rank)} = Keys(run.stats)
        /\ \A i, j \in 1..Len(run.rank) :
              i < j =>
                 /\ run.rank[i].model_name # run.rank[j].model_name
                 /\ ~RLess(run.rank[i].score, run.rank[j].score)
                 /\ SameScore(run.rank[i], run.rank[j])
                       => PlaceIn(run.stats, run.rank[i].model_name)
                              < PlaceIn(run.stats, run.rank[j].model_name)

(* C13's case: three models, the last of the aggregate has the highest     *)
(* score and the first two have equal scores.                              *)
C13_Witness ==
    \E run \in Range(ahtml) :
        /\ Len(run.rank) = 3
        /\ run.rank[1].model_name = run.stats[3].k
        /\ RLess(run.rank[2].score, run.rank[1].score)
        /\ SameScore(run.rank[2], run.rank[3])
        /\ run.rank[2].model_name = run.stats[1].k

InScale(r) == ~RLess(r, FromInt(0)) /\ ~RLess(FromInt(100), r)

(* the sub-scores that enter the weighted sum of a ranking entry of the    *)
(* 5-factor scheme                                                         *)
SubScores(entry) ==
    {entry.pass_rate, entry.compile_rate,
     TimeScore(entry.avg_response_time), CostScore(entry.total_cost)}
    \cup {ComplexityScore(entry.avg_complexity[i]) :
             i \in 1..Len(entry.avg_complexity)}
    \cup {entry.avg_maintainability[i] : i \in 1..Len(entry.avg_maintainability)}

(* the further sub-scores of the 7-factor scheme *)
GrafanaSubScores(entry) ==
    SubScores(entry)
    \cup {SecurityScore(entry.avg_security_issues[i]) :
             i \in 1..Len(entry.avg_security_issues)}
    \cup {RMul(entry.avg_explanation_score[i], FromInt(10)) :
             i \in 1..Len(entry.avg_explanation_score)}
    \cup {DensityScore(entry.avg_comment_density[i]) :
             i \in 1..Len(entry.avg_comment_density)}

(* C14: for results whose metrics lie in their documented ranges, every    *)
(* sub-score of the weighted sum and the composite score are in [0,100],   *)
(* in the 5-factor and in the 7-factor scheme.                             *)
C14_ScoresStayInScale ==
    /\ \A run \in Range(ahtml) : \A i \in 1..Len(run.rank) :
          /\ InScale(run.rank[i].score)
          /\ \A sub \in SubScores(run.rank[i]) : InScale(sub)
    /\ \A run \in Range(agraf) : \A i \in 1..Len(run.rank) :
          /\ InScale(run.rank[i].score)
          /\ \A sub \in GrafanaSubScores(run.rank[i]) : InScale(sub)

(* the aggregate of Scenario C: ten results, eight passed, all compiled,   *)
(* 500 ms on average, one cent in total, no quality data                   *)
IsScenarioC(stats) ==
    /\ stats.total = 10
    /\ stats.passed = 8
    /\ stats.compiled = 10
    /\ Average(stats.response_times) = Some(FromInt(500))
    /\ SumSeq(stats.costs) = 1
    /\ stats.complexities = <<>>
    /\ stats.maintainability_scores = <<>>

(* the ranking entries of the 5-factor scheme for a Scenario C aggregate *)
ScenarioEntries ==
    UNION {{run.rank[i] : i \in {j \in 1..Len(run.rank) :
                                   \E k \in 1..Len(run.stats) :
                                      /\ run.stats[k].k = run.rank[j].model_name
                                      /\ IsScenarioC(run.stats[k].v)}} :
           run \in Range(ahtml)}

(* C15 as stated: the Scenario C model has pass rate 80, compile rate 100  *)
(* and a composite score of about 69.97 in the 5-factor scheme.            *)
C15_ScenarioScoreAbout6997 ==
    \A entry \in ScenarioEntries :
        /\ entry.pass_rate = FromInt(80)
        /\ entry.compile_rate = FromInt(100)
        /\ ~RLess(entry.score, Ratio(69965, 1000))
        /\ RLess(entry.score, Ratio(69975, 1000))

(* C15 amended: the Scenario C model has pass rate 80, compile rate 100    *)
(* and the composite score 69.70 = 40 + 20 + 4.75 + 4.95, the time score   *)
(* being 95 and the cost score 99.                                         *)
C15_ScenarioScoreIs6970 ==
    \A entry \in ScenarioEntries :
        /\ entry.pass_rate = FromInt(80)
        /\ entry.compile_rate = FromInt(100)
        /\ TimeScore(entry.avg_response_time) = FromInt(95)
        /\ CostScore(entry.total_cost) = FromInt(99)
        /\ entry.score = Ratio(697, 10)

(* C15's case: the 5-factor ranking of a Scenario C aggregate *)
C15_Witness == ScenarioEntries # {}

(* the results of a model in the list, in evaluation order *)
ResultsOf(model) ==
    LET IsOf(r) == r.model_name = model IN SelectSeq(alist, IsOf)

(* the values of an Optional metric in the results of a model that carry   *)
(* it with a value other than None, in evaluation order                    *)
OptionalValues(model, key) ==
    LET Carries(r) == Has(r.metrics, key) /\ Get(r.metrics, key, Null) # Null
        with == SelectSeq(ResultsOf(model), Carries)
    IN  [i \in 1..Len(with) |-> Get(with[i].metrics, key, Null)[1]]

(* the same for a metric whose evaluator never gives None *)
SetValues(model, key) ==
    LET Carries(r) == Has(r.metrics, key)
        with == SelectSeq(ResultsOf(model), Carries)
    IN  [i \in 1..Len(with) |-> Get(with[i].metrics, key, 0)]

(* the ranking entry of a model in a run *)
EntryOf(run, model) ==
    run.rank[CHOOSE i \in 1..Len(run.rank) : run.rank[i].model_name = model]

(* C16: after the fold, each model's sequence of an optional metric holds  *)
(* exactly the values of the model's results that carry the metric, in     *)
(* evaluation order; a result without the metric adds nothing, and the     *)
(* ranking averages over that sequence only.                               *)
C16_OptionalMetricsArePresentOnly ==
    /\ \A run \in AllRuns : \A k \in 1..Len(run.stats) :
          LET model == run.stats[k].k
              stats == run.stats[k].v
              cc == OptionalValues(model, "cyclomatic_complexity")
              mi == OptionalValues(model, "maintainability_index")
          IN  /\ stats.complexities = cc
              /\ stats.maintainability_scores = mi
              /\ stats.pylint_scores = OptionalValues(model, "pylint_score")
              /\ EntryOf(run, model).avg_complexity = Average(cc)
              /\ EntryOf(run, model).avg_maintainability = Average(mi)
    /\ \A run \in Range(agraf) : \A k \in 1..Len(run.stats) :
          LET model == run.stats[k].k
              stats == run.stats[k].v
              sec == SetValues(model, "security_issues")
              expl == SetValues(model, "explanation_quality_score")
              dens == SetValues(model, "comment_density")
          IN  /\ stats.security_issues = sec
              /\ stats.explanation_scores = expl
              /\ stats.comment_densities = dens
              /\ EntryOf(run, model).avg_security_issues = Average(sec)
              /\ EntryOf(run, model).avg_explanation_score = Average(expl)
              /\ EntryOf(run, model).avg_comment_density = RAverage(dens)

(* C16's case: a model with three results of which one carries the         *)
(* complexity, one carries it as None and one is a provider error without  *)
(* any metric, in both reporters.                                          *)
C16_Witness ==
    /\ ahtml # <<>>
    /\ \E run \in Range(agraf) : \E k \in 1..Len(run.stats) :
          LET stats == run.stats[k].v
          IN  /\ stats.total = 3
              /\ Len(stats.complexities) = 1
              /\ Len(stats.maintainability_scores) = 1
              /\ Len(stats.security_issues) = 2
              /\ Len(stats.explanation_scores) = 1
              /\ \E i \in 1..Len(alist) :
                    /\ Has(alist[i].metrics, "cyclomatic_complexity")
                    /\ Get(alist[i].metrics, "cyclomatic_complexity", Null) = Null

(* the number of results of a model that satisfy a condition *)
CountOf(model, Cond(_)) == Len(SelectSeq(ResultsOf(model), Cond))

IsFailed(r) == ~r.passed

(* C17: after the fold, for every model total is the number of its         *)
(* results, total = passed + failed, compiled <= total, the response-time  *)
(* and cost sequences have length total, and every result that did not     *)
(* pass, provider errors included, is counted in total and in failed.      *)
C17_EveryResultIsCounted ==
    \A run \in AllRuns :
        /\ Keys(run.stats) = {alist[i].model_name : i \in 1..Len(alist)}
        /\ \A k \in 1..Len(run.stats) :
              LET model == run.stats[k].k
                  stats == run.stats[k].v
              IN  /\ stats.total = Len(ResultsOf(model))
                  /\ stats.total = stats.passed + stats.failed
                  /\ stats.failed = CountOf(model, IsFailed)
                  /\ stats.compiled <= stats.total
                  /\ Len(stats.response_times) = stats.total
                  /\ Len(stats.costs) = stats.total

(* C17's case: a model whose results are a passed one, a failed one that   *)
(* does not compile and a provider error, in both reporters.               *)
C17_Witness ==
    /\ ahtml # <<>>
    /\ agraf # <<>>
    /\ \E run \in Range(ahtml) : \E k \in 1..Len(run.stats) :
          LET stats == run.stats[k].v
          IN  /\ stats.total = 3
              /\ stats.passed = 1
              /\ stats.failed = 2
              /\ stats.compiled = 1
              /\ \E i \in 1..Len(alist) :
                    /\ alist[i].model_name = run.stats[k].k
                    /\ alist[i] = BuildErrorResult(run.stats[k].k, PairRule,
                                                   PairTest, ProviderErrorText)

(* all runs of a reporter over the list gave what its first run gave *)
SameAsFirst(runs) == \A i \in 1..Len(runs) : runs[i] = runs[1]

(* the results kept in the aggregate of the 5-factor reporter are the      *)
(* results of the list                                                     *)
KeptResultsAreInputs ==
    \A run \in Range(ahtml) : \A k \in 1..Len(run.stats) :
        run.stats[k].v.results = ResultsOf(run.stats[k].k)

RepeatableRuns ==
    /\ SameAsFirst(ahtml)
    /\ SameAsFirst(agraf)
    /\ KeptResultsAreInputs

OptionalWithin(key, lo, hi) ==
    (Has(emetrics, key) /\ Get(emetrics, key, Null) # Null)
        => (Get(emetrics, key, Null)[1] >= lo /\ Get(emetrics, key, Null)[1] <= hi)

(* C19: every score in the merged metrics is within its documented range,  *)
(* whatever the tools print: explanation_quality_score in [0,10],          *)
(* comment_density in [0,1], pylint_score in [0,10], maintainability_index *)
(* in [0,100], cyclomatic_complexity >= 0.                                 *)
C19_ScoresWithinDocumentedRange ==
    /\ Has(emetrics, "explanation_quality_score")
          => Get(emetrics, "explanation_quality_score", 0) \in 0..10
    /\ Has(emetrics, "comment_density")
          => LET d == Get(emetrics, "comment_density", Ratio(0, 1))
             IN  ~RLess(d, FromInt(0)) /\ ~RLess(FromInt(1), d)
    /\ OptionalWithin("pylint_score", 0, 10)
    /\ OptionalWithin("maintainability_index", 0, 100)
    /\ Has(emetrics, "cyclomatic_complexity")
          => (Get(emetrics, "cyclomatic_complexity", Null) # Null
                 => Get(emetrics, "cyclomatic_complexity", Null)[1] >= 0)

(* the map the security evaluator returned for the pair *)
SecurityOut == eout["security"].out

(* C20: in every map the enabled security evaluator returns,               *)
(* security_issues is the number of entries of issues, every issue's       *)
(* severity is HIGH, MEDIUM or LOW, high_severity_security is the number   *)
(* of issues of severity HIGH, and so it is at most security_issues.       *)
C20_SecurityCountsMatchIssues ==
    eout["security"].st = "returned" =>
        LET issues == Get(SecurityOut, "issues", <<>>)
            total == Get(SecurityOut, "security_issues", 0)
            high == Get(SecurityOut, "high_severity_security", 0)
        IN  /\ total = Len(issues)
            /\ \A i \in 1..Len(issues) :
                  issues[i].severity \in {"HIGH", "MEDIUM", "LOW"}
            /\ high = CountSev(issues, {"HIGH"})
            /\ high <= total

(***************************************************************************)
(* Further claims about the gate (SpecGate).                               *)
(***************************************************************************)

DocumentedReasons ==
    {"Does not resolve violation", "Introduces new violations",
     "Compilation error", "Compilation error: ",
     "High severity security issues"}

(* C29: the gate and the reason agree on every metrics map: a map that     *)
(* fails the gate gets one of the four documented reasons, never "Unknown  *)
(* failure", and a map that passes gets no reason.                         *)
C29_GateAndReasonAgree ==
    gres # <<>> =>
        /\ ~gres[1].passed => gres[1].failure_reason.msg \in DocumentedReasons
        /\ gres[1].passed => gres[1].failure_reason = NoReason

(***************************************************************************)
(* Further claims about evaluate() (SpecRun).                              *)
(***************************************************************************)

(* the test cases of a suite in rule order and test-case order *)
RECURSIVE SuiteCases(_, _)
SuiteCases(suite, ri) ==
    IF ri > Len(suite) THEN <<>>
    ELSE [ti \in 1..suite[ri] |-> <<ri, ti>>] \o SuiteCases(suite, ri + 1)

(* the results of the list for a pair *)
ResultsFor(tc, model) ==
    {i \in 1..Len(rall) : rall[i].test_case_id = tc /\ rall[i].model_name = model}

(* C26: when evaluate() returns, its result list holds exactly one result  *)
(* for each (test case, model) pair of the test cases it processed, in     *)
(* sequential and in parallel mode, and each result names the test case,   *)
(* the rule and the model of its pair.                                     *)
C26_OneResultPerPair ==
    rpc = "done" =>
        LET processed == Take(SuiteCases(rsuite, 1), rcompleted)
        IN  /\ Len(rall) = Len(processed) * Len(RunModels)
            /\ \A k \in 1..Len(processed) : \A m \in Range(RunModels) :
                  /\ Cardinality(ResultsFor(processed[k], m)) = 1
                  /\ \A i \in ResultsFor(processed[k], m) :
                        rall[i].rule_id = processed[k][1]

(* C26's case: a parallel run over two test cases returned, with provider  *)
(* errors among its results                                                *)
C26_Witness ==
    /\ rpc = "done"
    /\ rworkers = 2
    /\ rcompleted = 2
    /\ \E i \in 1..Len(rall) : ~rall[i].passed
    /\ \E i \in 1..Len(rall) : rall[i].passed

(* the number of test cases a limit lets through *)
Allowed(limit, total) ==
    IF limit = Null THEN total
    ELSE IF limit[1] < total THEN limit[1] ELSE total

(* the test cases of the results, in order of first appearance *)
RECURSIVE CasesOf(_, _)
CasesOf(results, seen) ==
    IF results = <<>> THEN <<>>
    ELSE IF Head(results).test_case_id \in seen
    THEN CasesOf(Tail(results), seen)
    ELSE <<Head(results).test_case_id>>
         \o CasesOf(Tail(results), seen \cup {Head(results).test_case_id})

(* C27: with a limit of N >= 0 test cases evaluate() processes exactly the *)
(* first min(N, total) test cases of the suite, in rule order and          *)
(* test-case order, each with every model; with limit None all of them.    *)
C27_LimitIsExact ==
    rpc = "done" =>
        LET all == SuiteCases(rsuite, 1)
            wanted == Take(all, Allowed(rlimit, Len(all)))
        IN  /\ CasesOf(rall, {}) = wanted
            /\ rcompleted = Len(wanted)
            /\ \A k \in 1..Len(wanted) :
                  CollectedFor(rall, wanted[k]) = Range(RunModels)

(***************************************************************************)
(* Further claims about the rule fetcher (SpecFetch).                      *)
(***************************************************************************)

FailedAnswers == FetchAnswers \ {"flat_rule", "nested_rule"}

(* the workers whose request did not give the rule *)
FailedWorkers == {w \in FetchWorkers : fwhy[w] \in FailedAnswers}

(* C22: any failure to obtain the rule (URL not convertible, network       *)
(* error, bad status, invalid YAML, unexpected structure, rule not found)  *)
(* gives the empty Konveyor message and no exception out of fetch_rule,    *)
(* and a failed lookup is not stored in the cache.                         *)
C22_FetchFailureDegradesToEmpty ==
    /\ \A w \in FailedWorkers :
          /\ fpc[w] = "done"
          /\ fgot[w] = "none"
          /\ KonveyorMessage(fgot[w]) = ""
    /\ \A i \in Instances :
          fcache[i] => \E w \in FetchWorkers \ FailedWorkers :
                          finst[w] = i /\ fgot[w] = "rule"

(***************************************************************************)
(* Further claims about the evaluators (SpecEval).                         *)
(***************************************************************************)

(* C21: when the efficiency benchmark exceeds its timeout, the efficiency  *)
(* evaluation gives a failure signal that reaches the result, so the test  *)
(* cannot pass; it does not give an empty map without the metrics.         *)
C21_BenchmarkTimeoutFailsTheTest ==
    ebench = "timeout" =>
        /\ eout["efficiency"].out # <<>>
        /\ eresult # <<>> => ~eresult[1].passed

(***************************************************************************)
(* Claims about _compile_java and _strip_failing_imports (SpecCompile)     *)
(***************************************************************************)
Succeeded(run) == run.how = "ok"

(* C24: one call of _compile_java runs the compiler at most twice; a      *)
(* second run is made only after a first run that failed with a 'package  *)
(* ... does not exist' error, on a file that stripping the imports        *)
(* changed; the call reports success exactly when one of its runs         *)
(* succeeded; when both runs failed it reports the output of the second,  *)
(* and when a single run failed it reports the output of that run.        *)
C24_TwoAttemptsThenGiveUp ==
    /\ Len(cruns) <= 2
    /\ Len(cruns) = 2 =>
          /\ cruns[1].how = "fail"
          /\ FailingPackages(cruns[1].out[1]) # {}
          /\ cruns[2].code # cruns[1].code
          /\ ccleaned = <<cruns[2].code>>
    /\ cresult # <<>> =>
          /\ cresult[1].compiles = "True" <=>
                \E i \in 1..Len(cruns) : Succeeded(cruns[i])
          /\ Len(cruns) = 2 /\ cruns[2].how = "fail" =>
                /\ cresult[1].compiles = "False"
                /\ cresult[1].output = cruns[2].out
                /\ cresult[1].output[1].run = 2
          /\ Len(cruns) = 1 /\ cruns[1].how = "fail" =>
                /\ cresult[1].compiles = "False"
                /\ cresult[1].output = cruns[1].out
                /\ cresult[1].output[1].run = 1

(* both runs were made and failed, and the call has returned *)
C24_Witness ==
    /\ cresult # <<>>
    /\ Len(cruns) = 2
    /\ cruns[2].how = "fail"

(* the package a line imports from: the name without the class, and for a *)
(* static import without the class and the member                         *)
ImportedPackage(line) ==
    IF line.kind = "import" THEN SubSeq(line.name, 1, Len(line.name) - 1)
    ELSE SubSeq(line.name, 1, Len(line.name) - 2)

(* the import lines of the code whose imported package was reported *)
ReportedImport(line, error_output) ==
    IsImportLine(line) /\ ImportedPackage(line) \in FailingPackages(error_output)

RECURSIVE WithoutReported(_, _)
WithoutReported(code, error_output) ==
    IF code = <<>> THEN <<>>
    ELSE IF ReportedImport(Head(code), error_output)
         THEN WithoutReported(Tail(code), error_output)
         ELSE <<Head(code)>> \o WithoutReported(Tail(code), error_output)

(* C25: _strip_failing_imports returns the code without the import lines  *)
(* whose imported package the compiler reported as 'does not exist', and  *)
(* with every other line (an import of a sub-package of a reported        *)
(* package included) unchanged and in its original order; when no package *)
(* is reported it returns the code unchanged.                             *)
C25_StripsExactlyReportedImports ==
    ccleaned # <<>> =>
        ccleaned[1] = WithoutReported(cruns[1].code, cruns[1].out[1])

(***************************************************************************)
(* Claims about _run_python_benchmark (SpecBenchFair)                      *)
(***************************************************************************)
(* C28: the benchmark always terminates: whether or not the child exits   *)
(* on its own, the call eventually leaves the polling loop and returns or *)
(* raises.                                                                *)
C28_BenchmarkTerminates == <>(bpc = "done")

(***************************************************************************)
(* Claims about _initialize_evaluators (SpecInit)                          *)
(***************************************************************************)
(* an evaluator is enabled by its flag; without section or flag every     *)
(* evaluator but efficiency is enabled                                    *)
DocumentedEnabled(name) ==
    CASE iconfig[name] = "true" -> TRUE
      [] iconfig[name] = "false" -> FALSE
      [] OTHER -> name # "efficiency"

(* C23: the construction of the engine's evaluators succeeds whichever    *)
(* sections and enabled flags are absent; an evaluator is constructed     *)
(* exactly when it is enabled (by its flag, else by default: functional,  *)
(* quality, security and explainability enabled, efficiency disabled),    *)
(* and exactly the enabled evaluators are invoked.                        *)
C23_EnabledEvaluatorsAreBuiltAndRun ==
    /\ ipc # "raised"
    /\ ipc \in {"built", "ran"} =>
          \A name \in EvaluatorNames :
             ievaluators[name] # "none" <=> DocumentedEnabled(name)
    /\ ipc = "ran" =>
          iinvoked = {name \in EvaluatorNames : DocumentedEnabled(name)}

(***************************************************************************)
(* Claims about DatabaseWriter (SpecWriter)                                *)
(***************************************************************************)
Finished(run) == run.status \in {"completed", "failed"}

(* after __exit__: the storage is closed, and the run the writer started  *)
(* has the status that matches how the context was left, and a            *)
(* completed_at of that moment                                            *)
LeftContext ==
    wpc = "left" =>
       /\ ~wopen
       /\ wcurrent # 0 =>
             /\ wstore[wcurrent].status =
                   (IF wexit = "exception" THEN "failed" ELSE "completed")
             /\ wstore[wcurrent].completed_at = Some(wclock)

(* a run enters the storage with status 'running' *)
CreatedRunning ==
    \A id \in RunIds :
       wstore[id] = NoRun /\ wstore'[id] # NoRun => wstore'[id].status = "running"

(* leaving the context of a writer that started no run changes no run *)
NoRunNoUpdate ==
    wpc = "inside" /\ wpc' = "left" /\ wcurrent = 0 => wstore' = wstore

(* a finished run is never running again *)
NeverBackToRunning ==
    \A id \in RunIds : Finished(wstore[id]) => wstore'[id].status # "running"

(* C30: a run written through DatabaseWriter is created with status       *)
(* 'running'; leaving the context of a writer that started a run sets the *)
(* run's status to 'failed' if an exception propagated and to 'completed' *)
(* otherwise, sets completed_at and closes the storage; leaving the       *)
(* context of a writer that started no run updates no run; no run goes    *)
(* back from 'completed' or 'failed' to 'running'.                        *)
C30_RunStatusLifecycle ==
    /\ []LeftContext
    /\ [][CreatedRunning /\ NoRunNoUpdate /\ NeverBackToRunning]_vars

(* the context was left by an exception after a run had been started *)
C30_Witness ==
    /\ wpc = "left"
    /\ wcurrent # 0
    /\ wexit = "exception"

=============================================================================
